---- MODULE Spec2Model ----
(***************************************************************************)
(* A model of nuklear-cffi.py, the binding generator of nuklear-cffi.      *)
(*                                                                         *)
(* Text is modelled character by character: a text is a sequence of        *)
(* one-character strings, and every regular expression of the program is   *)
(* a matcher over such sequences that follows Python's `re` semantics      *)
(* (leftmost match, greedy and lazy quantifiers, non-overlapping           *)
(* substitution from left to right).  Python integers are unbounded, so    *)
(* an integer is the set of the positions of its one bits and its decimal  *)
(* string is computed digit by digit.                                      *)
(***************************************************************************)
EXTENDS Integers, Sequences, FiniteSets, TLC

(***************************************************************************)
(* Characters and texts                                                    *)
(***************************************************************************)

\* A Python string literal as a text.
Chars(s) == [i \in 1..Len(s) |-> SubSeq(s, i, i)]

\* The character at position i, or "" past the end.
At(t, i) == IF i >= 1 /\ i <= Len(t) THEN t[i] ELSE ""

\* t[i:] starts with the literal text lit.
StartsAt(t, i, lit) == \A j \in 1..Len(lit) : At(t, i + j - 1) = lit[j]

\* t[i:] (1-based, to the end).
From(t, i) == SubSeq(t, i, Len(t))

Digit == {"0", "1", "2", "3", "4", "5", "6", "7", "8", "9"}
Lower == {"a", "b", "c", "d", "e", "f", "g", "h", "i", "j", "k", "l", "m",
          "n", "o", "p", "q", "r", "s", "t", "u", "v", "w", "x", "y", "z"}
Upper == {"A", "B", "C", "D", "E", "F", "G", "H", "I", "J", "K", "L", "M",
          "N", "O", "P", "Q", "R", "S", "T", "U", "V", "W", "X", "Y", "Z"}
\* The class [a-zA-Z0-9_] of val_expr.
IdentChar == Lower \cup Upper \cup Digit \cup {"_"}
\* What str.strip() and int() strip.
Whitespace == {" ", "\n", "\t"}

Min(S) == CHOOSE m \in S : \A x \in S : m <= x
Max(S) == CHOOSE m \in S : \A x \in S : x <= m

\* The first position >= i whose character is not in class (a greedy
\* [class]*), Len(t) + 1 when there is none.
SkipClass(t, i, class) ==
    CHOOSE j \in i..(Len(t) + 1) :
        At(t, j) \notin class /\ \A k \in i..(j - 1) : t[k] \in class

\* The first position >= i whose character is in stops (a greedy
\* [^stops]*), Len(t) + 1 when there is none.
SkipUntil(t, i, stops) ==
    CHOOSE j \in i..(Len(t) + 1) :
        (j = Len(t) + 1 \/ t[j] \in stops) /\ \A k \in i..(j - 1) : t[k] \notin stops

\* The least member of a set of positions, or 0 for none: the leftmost
\* match of the scan of re.search and of each round of re.sub.
Leftmost(S) == IF S = {} THEN 0 ELSE Min(S)

\* The first position >= i where the literal lit starts, or 0 (a lazy
\* .*? followed by lit).
Find(t, i, lit) ==
    Leftmost({j \in i..(Len(t) - Len(lit) + 1) : StartsAt(t, j, lit)})

\* Concatenation of a sequence of texts.
RECURSIVE Concat(_)
Concat(ts) == IF ts = <<>> THEN <<>> ELSE Head(ts) \o Concat(Tail(ts))

\* text.split(sep) for a one-character sep, from position i on.
RECURSIVE split(_, _, _)
split(t, i, sep) ==
    LET b == Find(t, i, <<sep>>)
    IN  IF b = 0 THEN <<From(t, i)>>
        ELSE <<SubSeq(t, i, b - 1)>> \o split(t, b + 1, sep)

(***************************************************************************)
(* Python integers: int(), str(), <<, |                                    *)
(***************************************************************************)

DigitVal(c) ==
    CASE c = "0" -> 0 [] c = "1" -> 1 [] c = "2" -> 2 [] c = "3" -> 3
      [] c = "4" -> 4 [] c = "5" -> 5 [] c = "6" -> 6 [] c = "7" -> 7
      [] c = "8" -> 8 [] c = "9" -> 9
      [] c \in {"a", "A"} -> 10 [] c \in {"b", "B"} -> 11
      [] c \in {"c", "C"} -> 12 [] c \in {"d", "D"} -> 13
      [] c \in {"e", "E"} -> 14 [] c \in {"f", "F"} -> 15

DigitChar(d) == <<"0", "1", "2", "3", "4", "5", "6", "7", "8", "9">>[d + 1]

HexDigit == Digit \cup {"a", "b", "c", "d", "e", "f", "A", "B", "C", "D", "E", "F"}
OctDigit == {"0", "1", "2", "3", "4", "5", "6", "7"}

\* A decimal digit string without its leading zeros ("0" for zero).
RECURSIVE Normal(_)
Normal(ds) == IF Len(ds) > 1 /\ Head(ds) = "0" THEN Normal(Tail(ds)) ELSE ds

\* The decimal string of 2 * ds + carry, computed from the last digit up.
RECURSIVE DoublePlus(_, _)
DoublePlus(ds, carry) ==
    IF ds = <<>> THEN (IF carry = 0 THEN <<>> ELSE <<DigitChar(carry)>>)
    ELSE LET v == 2 * DigitVal(ds[Len(ds)]) + carry
         IN  Append(DoublePlus(SubSeq(ds, 1, Len(ds) - 1), v \div 10),
                    DigitChar(v % 10))

\* The decimal string of ds \div 2, computed from the first digit down.
RECURSIVE HalveFrom(_, _)
HalveFrom(ds, rem) ==
    IF ds = <<>> THEN <<>>
    ELSE LET v == 10 * rem + DigitVal(Head(ds))
         IN  <<DigitChar(v \div 2)>> \o HalveFrom(Tail(ds), v % 2)

\* The integer (a set of bit positions) of a string of digits in base
\* 2^width, most significant digit first; shift is the position of the
\* lowest bit of the last digit.
RECURSIVE PowerBits(_, _, _)
PowerBits(ds, width, shift) ==
    IF ds = <<>> THEN {}
    ELSE LET d == DigitVal(ds[Len(ds)])
         IN  {shift + b : b \in {b \in 0..(width - 1) : (d \div (2 ^ b)) % 2 = 1}}
             \cup PowerBits(SubSeq(ds, 1, Len(ds) - 1), width, shift + width)

\* The integer of a decimal digit string; bit is the position of its
\* lowest bit.
RECURSIVE DecimalBits(_, _)
DecimalBits(ds, bit) ==
    IF Normal(ds) = <<"0">> \/ ds = <<>> THEN {}
    ELSE (IF DigitVal(ds[Len(ds)]) % 2 = 1 THEN {bit} ELSE {})
         \cup DecimalBits(Normal(HalveFrom(ds, 0)), bit + 1)

\* str(n) of a non-negative integer n.
RECURSIVE StrFrom(_, _, _)
StrFrom(n, bit, acc) ==
    IF bit < 0 THEN acc
    ELSE StrFrom(n, bit - 1, DoublePlus(acc, IF bit \in n THEN 1 ELSE 0))

str(n) == IF n = {} THEN <<"0">> ELSE StrFrom(n, Max(n), <<>>)

\* 1 << k.
ShiftLeftOne(k) == {k}

\* A faulty x | y that takes the bits common to both, x & y.
BitAnd(x, y) == x \cap y

\* x | y.
BitOr(x, y) == x \cup y

\* text.strip().
RECURSIVE RStrip(_)
RStrip(t) ==
    IF t # <<>> /\ t[Len(t)] \in Whitespace THEN RStrip(SubSeq(t, 1, Len(t) - 1))
    ELSE t

strip(t) == RStrip(From(t, SkipClass(t, 1, Whitespace)))

\* int(text) of a string of decimal digits (the group [0-9]+), as a number
\* of bit positions; the shift counts of the model stay far below 2^31.
RECURSIVE SmallInt(_, _)
SmallInt(ds, acc) ==
    IF ds = <<>> THEN acc ELSE SmallInt(Tail(ds), 10 * acc + DigitVal(Head(ds)))

AllIn(t, class) == \A i \in 1..Len(t) : t[i] \in class

\* int(text, 0) in Python 2: surrounding whitespace is stripped; "0x.." is
\* hexadecimal, a leading "0" makes the literal octal, anything else is
\* decimal; a text that is no literal raises ValueError.
ParseInt0(text) ==
    LET s == strip(text)
    IN  IF Len(s) > 2 /\ s[1] = "0" /\ s[2] \in {"x", "X"} /\ AllIn(From(s, 3), HexDigit)
            THEN [ok |-> TRUE, val |-> PowerBits(From(s, 3), 4, 0)]
        ELSE IF Len(s) > 1 /\ s[1] = "0" /\ AllIn(s, OctDigit)
            THEN [ok |-> TRUE, val |-> PowerBits(s, 3, 0)]
        ELSE IF s # <<>> /\ AllIn(s, Digit) /\ (s[1] # "0" \/ Len(s) = 1)
            THEN [ok |-> TRUE, val |-> DecimalBits(s, 0)]
        ELSE [ok |-> FALSE, err |-> "ValueError", name |-> text]

(***************************************************************************)
(* "Evaluating << expressions..."                                          *)
(***************************************************************************)

\* shift_expr = "\\(1 << \\(([0-9]+)\\)\\)": the position after a match
\* that starts at i, or 0.
shift_expr(t, i) ==
    LET d == i + 7
        e == SkipClass(t, d, Digit)
    IN  IF StartsAt(t, i, Chars("(1 << (")) /\ e > d /\ StartsAt(t, e, Chars("))"))
        THEN e + 2 ELSE 0

\* match.group(1) of a shift_expr match at i that ends before e.
ShiftGroup1(t, i, e) == SubSeq(t, i + 7, e - 3)

\* A faulty evaluate_shift with the operands of << exchanged,
\* str(int(match.group(1)) << 1).
evaluate_shift_exchanged(group1) == str(DecimalBits(Normal(DoublePlus(group1, 0)), 0))

\* evaluate_shift(match), given match.group(1).
evaluate_shift(group1) == str(ShiftLeftOne(SmallInt(group1, 0)))

\* re.sub(shift_expr, evaluate_shift, text), from position i on: the text
\* up to the leftmost match is copied, the match is replaced, and the scan
\* goes on after it.
RECURSIVE SubShift(_, _)
SubShift(t, i) ==
    LET m == Leftmost({j \in i..Len(t) : shift_expr(t, j) # 0})
        e == shift_expr(t, m)
    IN  IF m = 0 THEN From(t, i)
        ELSE SubSeq(t, i, m - 1) \o evaluate_shift(ShiftGroup1(t, m, e))
             \o SubShift(t, e)

(***************************************************************************)
(* "Evaluating | expressions..."                                           *)
(***************************************************************************)

\* The depth of nested lookup_value calls at which the interpreter gives up
\* with "maximum recursion depth exceeded" (Python's recursion limit, far
\* above the depth any acyclic header of the model needs).
RecursionLimit == 12

\* val_expr = "(nk|NK)_[a-zA-Z0-9_]+": the position after a match that
\* starts at i, or 0.  The class is matched greedily; no shorter match can
\* help what follows, since what follows never starts with a class member.
val_expr(t, i) ==
    LET e == SkipClass(t, i + 3, IdentChar)
    IN  IF (StartsAt(t, i, Chars("nk_")) \/ StartsAt(t, i, Chars("NK_"))) /\ e > i + 3
        THEN e ELSE 0

\* The greedy repetition ( *\| *val_expr)* from position e on: the position
\* after its last round.
RECURSIVE OrRounds(_, _)
OrRounds(t, e) ==
    LET bar == SkipClass(t, e, {" "})
        v   == val_expr(t, SkipClass(t, bar + 1, {" "}))
    IN  IF At(t, bar) = "|" /\ v # 0 THEN OrRounds(t, v) ELSE e

\* A faulty pattern that takes every right-hand side made of symbols, a
\* single one too: "(?<== )%s( *\\| *%s)*".
or_expr_any_rhs(t, i) ==
    LET v == val_expr(t, i)
    IN  IF v # 0 /\ i > 2 /\ At(t, i - 2) = "=" /\ At(t, i - 1) = " "
        THEN OrRounds(t, v) ELSE 0

\* or_expr = "%s( *\\| *%s)+" % (val_expr, val_expr): the position after a
\* match that starts at i, or 0.
or_expr(t, i) ==
    LET v == val_expr(t, i)
        e == OrRounds(t, v)
    IN  IF v # 0 /\ e > v THEN e ELSE 0

\* What a lookup yields: a value, or the exception it raised.
Value(n) == [ok |-> TRUE, val |-> n, err |-> "", name |-> <<>>]
Raise(e, what) == [ok |-> FALSE, val |-> {}, err |-> e, name |-> what]

\* The pattern "%s *= *([^\n,]*)" % value_name of lookup_value, for a
\* value_name without regular-expression metacharacters (every name the
\* model looks up is made of letters, digits and underscores): the position
\* after a match that starts at i, or 0.
AssignEnd(value_name, t, i) ==
    LET eq == SkipClass(t, i + Len(value_name), {" "})
    IN  IF StartsAt(t, i, value_name) /\ At(t, eq) = "="
        THEN SkipUntil(t, SkipClass(t, eq + 1, {" "}), {"\n", ","})
        ELSE 0

\* assignment.group(1) of the match of that pattern at i.
AssignGroup1(value_name, t, i) ==
    LET eq == SkipClass(t, i + Len(value_name), {" "})
        g  == SkipClass(t, eq + 1, {" "})
    IN  SubSeq(t, g, SkipUntil(t, g, {"\n", ","}) - 1)

\* A faulty search that takes the last match in text.
SearchAssign_last(value_name, text) ==
    LET S == {j \in 1..Len(text) : AssignEnd(value_name, text, j) # 0}
    IN  IF S = {} THEN 0 ELSE Max(S)

\* re.search of that pattern in text: the start of the leftmost match, or 0.
\* (The greedy group may be empty, so the match at i ends where it ends
\* and AssignEnd is 0 only when there is no match.)
SearchAssign(value_name, text) ==
    Leftmost({j \in 1..Len(text) : AssignEnd(value_name, text, j) # 0})

\* reduce(lambda x,y: x|y, values) over the values of a non-empty list.
RECURSIVE reduce_or(_)
reduce_or(values) ==
    IF Len(values) = 1 THEN values[1]
    ELSE BitOr(reduce_or(SubSeq(values, 1, Len(values) - 1)), values[Len(values)])

\* The value of a list of lookups, each a value or the exception it raised:
\* reduce(lambda x,y: x|y, values), unless a lookup raised; map runs the
\* lookups in order, so the first exception is the one that ends it.
OrOfLookups(lookups) ==
    LET raised == {k \in 1..Len(lookups) : ~lookups[k].ok}
    IN  IF raised = {}
        THEN Value(reduce_or([k \in 1..Len(lookups) |-> lookups[k].val]))
        ELSE lookups[Min(raised)]

RECURSIVE lookup_value(_, _, _)
RECURSIVE evaluate_or(_, _, _)

\* A faulty lookup_value that does not follow a value made of symbols and
\* returns the 0 that ret starts as.
lookup_value_flat(value_name, preprocessed_text, depth) ==
    LET assignment == SearchAssign(value_name, preprocessed_text)
        value      == AssignGroup1(value_name, preprocessed_text, assignment)
    IN  IF assignment # 0
        THEN IF or_expr(value, 1) # 0 \/ val_expr(value, 1) # 0
             THEN Value({})
             ELSE LET n == ParseInt0(value)
                  IN  IF n.ok THEN Value(n.val) ELSE Raise("ValueError", value)
        ELSE Raise("Exception", value_name)

\* A faulty lookup_value that gives up on definitions nested three deep and
\* returns the 0 that ret starts as.
lookup_value_guarded(value_name, preprocessed_text, depth) ==
    LET assignment == SearchAssign(value_name, preprocessed_text)
        value      == AssignGroup1(value_name, preprocessed_text, assignment)
    IN  IF depth >= 3 THEN Value({})
        ELSE IF assignment # 0
        THEN IF or_expr(value, 1) # 0 \/ val_expr(value, 1) # 0
             THEN evaluate_or(value, preprocessed_text, depth + 1)
             ELSE LET n == ParseInt0(value)
                  IN  IF n.ok THEN Value(n.val) ELSE Raise("ValueError", value)
        ELSE Raise("Exception", value_name)

\* A faulty lookup_value that returns the 0 that ret starts as when the
\* symbol has no assignment, where the program raises.
lookup_value_silent(value_name, preprocessed_text, depth) ==
    LET assignment == SearchAssign(value_name, preprocessed_text)
        value      == AssignGroup1(value_name, preprocessed_text, assignment)
    IN  IF depth >= RecursionLimit THEN Raise("RuntimeError", value_name)
        ELSE IF assignment # 0
        THEN IF or_expr(value, 1) # 0 \/ val_expr(value, 1) # 0
             THEN evaluate_or(value, preprocessed_text, depth + 1)
             ELSE LET n == ParseInt0(value)
                  IN  IF n.ok THEN Value(n.val) ELSE Raise("ValueError", value)
        ELSE Value({})

\* A faulty lookup_value that evaluates the name it was given where it
\* should evaluate the value found, ret = evaluate_or(value_name).
lookup_value_of_name(value_name, preprocessed_text, depth) ==
    LET assignment == SearchAssign(value_name, preprocessed_text)
        value      == AssignGroup1(value_name, preprocessed_text, assignment)
    IN  IF depth >= RecursionLimit THEN Raise("RuntimeError", value_name)
        ELSE IF assignment # 0
        THEN IF or_expr(value, 1) # 0 \/ val_expr(value, 1) # 0
             THEN evaluate_or(value_name, preprocessed_text, depth + 1)
             ELSE LET n == ParseInt0(value)
                  IN  IF n.ok THEN Value(n.val) ELSE Raise("ValueError", value)
        ELSE Raise("Exception", value_name)

\* evaluate_or(expression_text), called at nesting depth depth, with
\* preprocessed_text the text the enclosing function's variable holds.
evaluate_or(expression_text, preprocessed_text, depth) ==
    LET pieces == split(expression_text, 1, "|")
    IN  OrOfLookups(SubSeq([k \in 1..Len(pieces) |->
                            lookup_value(strip(pieces[k]), preprocessed_text, depth)],
                           1, Len(pieces)))

\* lookup_value(value_name).
lookup_value(value_name, preprocessed_text, depth) ==
    LET assignment == SearchAssign(value_name, preprocessed_text)
        value      == AssignGroup1(value_name, preprocessed_text, assignment)
    IN  IF depth >= RecursionLimit THEN Raise("RuntimeError", value_name)
        ELSE IF assignment # 0
        THEN IF or_expr(value, 1) # 0 \/ val_expr(value, 1) # 0
             THEN evaluate_or(value, preprocessed_text, depth + 1)
             ELSE LET n == ParseInt0(value)
                  IN  IF n.ok THEN Value(n.val) ELSE Raise("ValueError", value)
        ELSE Raise("Exception", value_name)

\* replace_or(match), given match.group(0).
replace_or(group0, preprocessed_text) ==
    LET r == evaluate_or(group0, preprocessed_text, 0)
    IN  IF r.ok THEN [ok |-> TRUE, text |-> str(r.val), err |-> "", name |-> <<>>]
        ELSE [ok |-> FALSE, text |-> <<>>, err |-> r.err, name |-> r.name]

\* A faulty reading in which the callbacks see the output made so far,
\* followed by the text not yet gone through.
LookupText_rewritten(preprocessed_text, i, done) == done \o From(preprocessed_text, i)

\* What the name preprocessed_text denotes while re.sub runs, with i the
\* position the substitution has come to and done its output so far: the
\* text the substitution was started on, for line 80 assigns the result
\* only when re.sub returns.
LookupText(preprocessed_text, i, done) == preprocessed_text

\* re.sub(or_expr, replace_or, preprocessed_text) from position i on, with
\* done the output so far.
RECURSIVE SubOr(_, _, _)
SubOr(preprocessed_text, i, done) ==
    LET m == Leftmost({j \in i..Len(preprocessed_text) : or_expr(preprocessed_text, j) # 0})
        e == or_expr(preprocessed_text, m)
        r == replace_or(SubSeq(preprocessed_text, m, e - 1),
                        LookupText(preprocessed_text, i, done))
    IN  IF m = 0
        THEN [ok |-> TRUE, text |-> done \o From(preprocessed_text, i),
              err |-> "", name |-> <<>>]
        ELSE IF r.ok
        THEN SubOr(preprocessed_text, e,
                   done \o SubSeq(preprocessed_text, i, m - 1) \o r.text)
        ELSE r

(***************************************************************************)
(* "Stubbing nk_table..." and "Removing duplicate ..."                     *)
(***************************************************************************)

StructHead == Chars("struct nk_table {")
SizeofOpen == Chars("sizeof(")
StructClose == Chars("};")

\* The pattern "(struct nk_table {.*?;)[^;]*?sizeof\\(.*?};" with DOTALL,
\* matched at i.  The lazy .*?; of group 1 stops at the first ";" from
\* which [^;]*?sizeof\( can go on, that is, the first ";" whose next
\* "sizeof(" comes before the next ";"; the last .*? stops at the first
\* "};" after that "sizeof(".  A later ";" or "sizeof(" cannot rescue the
\* match when that "};" is missing, for it is missing after them too.
\* StubSemis: the positions where group 1 may end.
StubSemis(t, i) ==
    {p \in (i + Len(StructHead))..Len(t) :
        /\ t[p] = ";"
        /\ LET q == Find(t, p + 1, SizeofOpen)
           IN  q # 0 /\ SkipUntil(t, p + 1, {";"}) > q}

\* A faulty group 1 that ends at the first ";" of the struct,
\* "(struct nk_table {[^;]*;).*?sizeof\\(.*?};".
StubGroup1End_first(t, i) ==
    IF StartsAt(t, i, StructHead) /\ StubSemis(t, i) # {}
    THEN SkipUntil(t, i + Len(StructHead), {";"}) ELSE 0

\* The position of the last character of group 1, or 0.
StubGroup1End(t, i) ==
    IF StartsAt(t, i, StructHead) /\ StubSemis(t, i) # {}
    THEN Min(StubSemis(t, i)) ELSE 0

\* A faulty pattern without re.DOTALL, whose . does not cross the end of a
\* line.
stub_expr_one_line(t, i) ==
    LET p == StubGroup1End(t, i)
        q == Find(t, p + 1, SizeofOpen)
        r == Find(t, q + Len(SizeofOpen), StructClose)
    IN  IF /\ p # 0 /\ r # 0
           /\ Find(SubSeq(t, i + Len(StructHead), p), 1, <<"\n">>) = 0
           /\ Find(SubSeq(t, q, r), 1, <<"\n">>) = 0
        THEN r + Len(StructClose) ELSE 0

\* The position after the match at i, or 0.
stub_expr(t, i) ==
    LET p == StubGroup1End(t, i)
        q == Find(t, p + 1, SizeofOpen)
        r == Find(t, q + Len(SizeofOpen), StructClose)
    IN  IF p # 0 /\ r # 0 THEN r + Len(StructClose) ELSE 0

\* A faulty replacement that does not close the struct.
StubReplacement_unclosed(group1) == group1 \o Chars("\n    ...;\n")

\* A faulty replacement that leaves out group 1.
StubReplacement_bare(group1) == Chars("\n    ...;\n};")

\* lambda x: x.group(1) + "\n    ...;\n};"
StubReplacement(group1) == group1 \o Chars("\n    ...;\n};")

\* re.sub of the struct pattern (count=0: every match), from position i on.
RECURSIVE SubStub(_, _)
SubStub(t, i) ==
    LET m == Leftmost({j \in i..Len(t) : stub_expr(t, j) # 0})
    IN  IF m = 0 THEN From(t, i)
        ELSE SubSeq(t, i, m - 1)
             \o StubReplacement(SubSeq(t, m, StubGroup1End(t, m)))
             \o SubStub(t, stub_expr(t, m))

\* The text of the pattern
\* "extern void nk_draw_list_clear\\(struct nk_draw_list \\*list\\);".
DuplicateDecl == Chars("extern void nk_draw_list_clear(struct nk_draw_list *list);")

\* A faulty pattern that takes any parameter list,
\* "extern void nk_draw_list_clear\\(.*?\\);".
duplicate_expr_any_params(t, i) ==
    LET open == Chars("extern void nk_draw_list_clear(")
        close == Find(t, i + Len(open), Chars(");"))
    IN  IF StartsAt(t, i, open) /\ close # 0
           /\ Find(SubSeq(t, i, close), 1, <<"\n">>) = 0
        THEN close + 2 ELSE 0

duplicate_expr(t, i) ==
    IF StartsAt(t, i, DuplicateDecl) THEN i + Len(DuplicateDecl) ELSE 0

\* re.sub(pattern, "", text), from position i on.
RECURSIVE SubDuplicate(_, _)
SubDuplicate(t, i) ==
    LET m == Leftmost({j \in i..Len(t) : duplicate_expr(t, j) # 0})
    IN  IF m = 0 THEN From(t, i)
        ELSE SubSeq(t, i, m - 1) \o SubDuplicate(t, duplicate_expr(t, m))

(***************************************************************************)
(* The C preprocessor and the FFI builder                                  *)
(***************************************************************************)

Blank == {" ", "\t"}

\* A preprocessor directive: the first non-blank character of the line is #.
IsDirective(line) == At(line, SkipClass(line, 1, Blank)) = "#"

\* An #error directive, on which cpp exits non-zero.
IsErrorDirective(line) ==
    IsDirective(line) /\ StartsAt(line, SkipClass(line, 1, Blank) + 1, Chars("error"))

\* lines is text.split("\n") without the last piece when that is empty.
LinesOf(text) ==
    LET ps == split(text, 1, "\n")
    IN  IF ps[Len(ps)] = <<>> THEN SubSeq(ps, 1, Len(ps) - 1) ELSE ps

\* What `cpp -P` prints for the lines from the k-th on: directives are
\* consumed and blank lines dropped, every other line is printed as it is.
\* (The macros the program defines, NK_STATIC_ASSERT and NK_INCLUDE_*, occur
\* in no other line of the headers of this model, so no line is expanded.)
RECURSIVE CppLines(_, _)
CppLines(lines, k) ==
    IF k > Len(lines) THEN <<>>
    ELSE (IF IsDirective(lines[k]) \/ strip(lines[k]) = <<>> THEN <<>>
          ELSE lines[k] \o <<"\n">>)
         \o CppLines(lines, k + 1)

\* A faulty call that does not look at the exit status of cpp and takes
\* what it printed (as subprocess.Popen(...).communicate() would).
cpp_unchecked(contents) ==
    [ok |-> TRUE, text |-> CppLines(LinesOf(contents), 1), err |-> "", name |-> <<>>]

\* subprocess.check_output(["cpp", "-P", filename]) on a file holding
\* contents: the output, or CalledProcessError for a non-zero exit.
cpp(contents) ==
    LET lines == LinesOf(contents)
    IN  IF \E k \in 1..Len(lines) : IsErrorDirective(lines[k])
        THEN [ok |-> FALSE, text |-> <<>>, err |-> "CalledProcessError", name |-> <<>>]
        ELSE [ok |-> TRUE, text |-> CppLines(lines, 1), err |-> "", name |-> <<>>]

(***************************************************************************)
(* The program's strings                                                   *)
(***************************************************************************)

header_only_options == Chars("\n    #define NK_STATIC_ASSERT(X) \n\n    ")

opts == Chars("\n    #define NK_INCLUDE_DEFAULT_ALLOCATOR\n    #define NK_INCLUDE_VERTEX_BUFFER_OUTPUT\n    #define NK_INCLUDE_FONT_BAKING\n    ")

source_prefix == Chars("\n    #define NK_IMPLEMENTATION\n    ")

extra_cdef_text == Chars("\n    extern \"Python\" {\n        float pynk_text_width_callback(nk_handle handle, float height, const char *text, int len);\n    }\n    ")

DefaultHeader == "nuklear/nuklear.h"
nuklear_defs_filename == "nuklear.defs"
PreprocessorInput == "preprocessor_input.h"
Usage == "nuklear-cffi.py ... Usage: ./nuklear-cffi.py [--header <filename>]"

\* The command-line loop of __main__ from argument i on: the header file
\* name it ends with, what it printed, and the exit status of a sys.exit
\* (-1 when the loop runs to its end).
RECURSIVE ParseArgv(_, _, _)

\* A faulty loop that skips the file name after --header and does not
\* assign it.
ParseArgv_name_dropped(args, i, filename) ==
    IF i > Len(args) THEN [exit |-> -1, out |-> <<>>, filename |-> filename]
    ELSE IF args[i] = "-h" \/ args[i] = "--help"
        THEN [exit |-> 0, out |-> <<Usage>>, filename |-> filename]
    ELSE IF args[i] = "--header"
        THEN IF i + 1 = Len(args) + 1
             THEN [exit |-> 1, out |-> <<"--header <filename>">>, filename |-> filename]
             ELSE ParseArgv(args, i + 2, filename)
    ELSE ParseArgv(args, i + 1, filename)

ParseArgv(args, i, filename) ==
    IF i > Len(args) THEN [exit |-> -1, out |-> <<>>, filename |-> filename]
    ELSE IF args[i] = "-h" \/ args[i] = "--help"
        THEN [exit |-> 0, out |-> <<Usage>>, filename |-> filename]
    ELSE IF args[i] = "--header"
        THEN IF i + 1 = Len(args) + 1
             THEN [exit |-> 1, out |-> <<"--header <filename>">>, filename |-> filename]
             ELSE ParseArgv(args, i + 2, args[i + 1])
    ELSE ParseArgv(args, i + 1, filename)

\* A faulty write that opens the file for appending, open(name, 'a').
WriteFile_append(files, name, data) ==
    [n \in DOMAIN files \cup {name} |->
        IF n = name THEN (IF name \in DOMAIN files THEN files[name] ELSE <<>>) \o data
        ELSE files[n]]

\* open(name, 'w').write(data) on the file system files.
WriteFile(files, name, data) ==
    [n \in DOMAIN files \cup {name} |-> IF n = name THEN data ELSE files[n]]

(***************************************************************************)
(* The headers the model is run on                                         *)
(*                                                                         *)
(* A header is described by a scenario: the entries of its enum, its       *)
(* struct nk_table, its nk_draw_list_clear prototypes, and whether it      *)
(* holds an #error directive.  The file the program reads is the           *)
(* scenario rendered as text.                                              *)
(***************************************************************************)

\* The most fixed members before, and members after, the sizeof member of
\* struct nk_table, and the most copies of the prototype.
MaxLead == 2
MaxTail == 1
MaxCopies == 2

Lit(name, text) == [k |-> "lit", name |-> name, args |-> <<text>>, sep |-> ""]
Shift(name, n) == [k |-> "shift", name |-> name, args |-> <<n>>, sep |-> ""]
Expr(name, terms, sep) == [k |-> "expr", name |-> name, args |-> terms, sep |-> sep]
\* NAME = (1 << ((1 << (n)))), as NK_FLAG(NK_FLAG(n)) expands.
Nest(name, n) == [k |-> "nest", name |-> name, args |-> <<n>>, sep |-> ""]
Absent == [k |-> "absent", name |-> "", args |-> <<>>, sep |-> ""]

\* The entries that are there.
RECURSIVE Present(_)
Present(es) ==
    IF es = <<>> THEN <<>>
    ELSE (IF Head(es).k = "absent" THEN <<>> ELSE <<Head(es)>>) \o Present(Tail(es))

NoTable == [present |-> FALSE, lead |-> 0, sized |-> FALSE, tail |-> 0, other |-> FALSE]
Table(lead, sized, tail) ==
    [present |-> TRUE, lead |-> lead, sized |-> sized, tail |-> tail, other |-> FALSE]
\* A struct nk_table without a sizeof member, followed by another struct
\* that has one.
TableThenOther(lead, tail) ==
    [present |-> TRUE, lead |-> lead, sized |-> FALSE, tail |-> tail, other |-> TRUE]

Scenario(entries, table, copies, cpperror, args) ==
    [entries |-> Present(entries), table |-> table, copies |-> copies,
     cpperror |-> cpperror, argv |-> args, extra |-> <<>>]

\* The scenario with further prototypes, each "unnamed" (nk_draw_list_clear
\* with its parameter unnamed) or "other" (another function).
WithExtra(sc, kinds) == [sc EXCEPT !.extra = kinds]

\* The shift counts of the enums.
ShiftCounts == {"0", "1", "8", "31"}

BaseRhs(name) == {Lit(name, "1"), Lit(name, "2"), Lit(name, "0x10")}
                 \cup {Shift(name, n) : n \in ShiftCounts}

\* Enums of literals and shifts only.
ShiftFamily ==
    {Scenario(<<a, b>>, NoTable, 0, FALSE, <<>>) :
        a \in BaseRhs("NK_A") \cup {Nest("NK_A", "2")},
        b \in BaseRhs("NK_B") \cup {Absent}}

\* Enums whose later entries are OR-chains, single references and mixed
\* expressions over the earlier ones; NK_U is defined nowhere.
ExprFamily ==
    {Scenario(<<a, b, c, d, e>>, NoTable, 0, FALSE, <<>>) :
        a \in {Lit("NK_A", "1"), Lit("NK_A", "0x10"), Shift("NK_A", "8")},
        b \in {Lit("NK_B", "2"), Shift("NK_B", "1")},
        c \in {Absent,
               Expr("NK_C", <<"NK_A", "NK_B">>, " | "),
               Expr("NK_C", <<"NK_A", "NK_B">>, "|"),
               Expr("NK_C", <<"NK_B", "NK_A", "NK_B">>, " | "),
               Expr("NK_C", <<"NK_A">>, ""),
               Expr("NK_C", <<"NK_A", "NK_U">>, " | ")},
        d \in {Absent,
               Expr("NK_D", <<"NK_C", "NK_A">>, " | "),
               Expr("NK_D", <<"NK_C">>, ""),
               Expr("NK_D", <<"NK_C", "4">>, " | "),
               Expr("NK_D", <<"NK_B", "NK_C">>, " |")},
        e \in {Absent, Expr("NK_E", <<"NK_D", "NK_A">>, " | ")}}

\* Headers with a struct nk_table.
TableFamily ==
    {Scenario(<<Lit("NK_A", "1")>>, Table(lead, sized, tail), 0, FALSE, <<>>) :
        lead \in 0..MaxLead, sized \in BOOLEAN, tail \in 0..MaxTail}
    \cup {Scenario(<<Lit("NK_A", "1")>>, TableThenOther(lead, tail), 0, FALSE, <<>>) :
              lead \in 1..MaxLead, tail \in 0..MaxTail}

\* Headers with prototypes of nk_draw_list_clear.
PrototypeFamily ==
    {Scenario(<<Lit("NK_A", "1")>>, t, copies, FALSE, <<>>) :
        t \in {NoTable, Table(1, TRUE, 1)}, copies \in 0..MaxCopies}

\* Whole headers: a shift-based enum with an OR-chain, a struct nk_table
\* and prototypes; some carry an #error directive.
WholeFamily ==
    {Scenario(<<Shift("NK_A", n), Shift("NK_B", "1"), c, Shift("NK_D", "8")>>,
              Table(lead, TRUE, 1), copies, cpperror, <<>>) :
        n \in {"0", "31"},
        c \in {Expr("NK_C", <<"NK_A", "NK_B">>, " | "),
               Expr("NK_C", <<"NK_A", "NK_U">>, " | ")},
        lead \in 1..MaxLead, copies \in 1..MaxCopies, cpperror \in BOOLEAN}

\* Enums whose definitions are cyclic.
CyclicFamily ==
    {Scenario(<<Lit("NK_A", "1"), c, d, Expr("NK_E", <<"NK_C", "NK_A">>, " | ")>>,
              NoTable, 0, FALSE, <<>>) :
        c \in {Expr("NK_C", <<"NK_D">>, ""), Expr("NK_C", <<"NK_D", "NK_A">>, " | ")},
        d \in {Expr("NK_D", <<"NK_C">>, ""), Expr("NK_D", <<"NK_A", "NK_C">>, " | ")}}

\* Command lines.
ArgvFamily ==
    {Scenario(<<Lit("NK_A", "1"), Lit("NK_B", "2"),
                Expr("NK_C", <<"NK_A", "NK_B">>, " | ")>>, NoTable, 1, FALSE, args) :
        args \in {<<"--header", "alt.h">>, <<"--header", "missing.h">>,
                  <<"--header">>, <<"--help">>, <<"-h">>, <<"-v">>}}
    \cup {Scenario(<<Lit("NK_A", "1"), Expr("NK_C", <<"NK_A", "NK_U">>, " | ")>>,
                   NoTable, 1, FALSE, <<"--header", "alt.h">>)}

\* Enums with a chain over a symbol whose own value is a chain of symbols
\* ORed with an integer literal, the chain before or after that symbol.
VisibilityFamily ==
    {Scenario(IF ahead THEN <<a, Lit("NK_B", "2"), d, c>> ELSE <<a, Lit("NK_B", "2"), c, d>>,
              NoTable, 0, FALSE, <<>>) :
        a \in {Lit("NK_A", "1"), Shift("NK_A", "8")},
        c \in {Expr("NK_C", <<"NK_A", "NK_B", "4">>, " | ")},
        d \in {Expr("NK_D", <<"NK_C", "NK_A">>, " | "),
               Expr("NK_D", <<"NK_B", "NK_C">>, " | ")},
        ahead \in BOOLEAN}

\* Enums in which NK_A is assigned twice, with a chain over it before the
\* first assignment, between the two, or after both.
DuplicateFamily ==
    {Scenario(CASE at = 0 -> <<c, first, Lit("NK_B", "2"), second>>
                [] at = 1 -> <<first, Lit("NK_B", "2"), c, second>>
                [] at = 2 -> <<first, Lit("NK_B", "2"), second, c>>,
              NoTable, 0, FALSE, <<>>) :
        first \in {Lit("NK_A", "1"), Shift("NK_A", "8")},
        second \in {Lit("NK_A", "4"), Lit("NK_A", "0x10")},
        c \in {Expr("NK_C", <<"NK_A", "NK_B">>, " | ")},
        at \in 0..2}

\* Headers with prototypes other than the one the generator removes.
ExtraFamily ==
    {WithExtra(Scenario(<<Lit("NK_A", "1")>>, t, copies, FALSE, <<>>), kinds) :
        t \in {NoTable, Table(1, TRUE, 0)}, copies \in 0..MaxCopies,
        kinds \in {<<"unnamed">>, <<"other", "other">>, <<"unnamed", "other", "other">>}}

Scenarios == ShiftFamily \cup ExprFamily \cup TableFamily \cup PrototypeFamily
             \cup WholeFamily \cup CyclicFamily \cup ArgvFamily
             \cup VisibilityFamily \cup DuplicateFamily \cup ExtraFamily

\* Enums in which an identifier ends with the text of a symbol a chain
\* looks up (NK_XNK_A, before or after NK_A), or with the text of an
\* integer literal a looked-up value holds (NK_X4).
CollisionFamily ==
    {Scenario(IF ahead THEN <<Lit("NK_XNK_A", x), a, Lit("NK_B", "2"), c>>
                       ELSE <<a, Lit("NK_XNK_A", x), Lit("NK_B", "2"), c>>,
              t, copies, FALSE, <<>>) :
        x \in {"4", "0x10"},
        a \in {Lit("NK_A", "1"), Shift("NK_A", "8")},
        c \in {Expr("NK_C", <<"NK_A", "NK_B">>, " | ")},
        ahead \in BOOLEAN,
        t \in {NoTable, Table(1, TRUE, 1)}, copies \in 0..1}
    \cup {Scenario(<<Lit("NK_A", "1"), Lit("NK_B", "2"), Lit("NK_X4", x),
                     Expr("NK_C", <<"NK_A", "NK_B">>, " | "),
                     Expr("NK_D", <<"NK_C", "4">>, " | "),
                     Expr("NK_E", <<"NK_D", "NK_A">>, " | ")>>,
                   NoTable, 0, FALSE, <<>>) :
              x \in {"0x10", "2"}}

\* The header of the file alt.h.
AltScenario ==
    Scenario(<<Shift("NK_A", "8"), Lit("NK_B", "2"),
               Expr("NK_C", <<"NK_B", "NK_A">>, " | ")>>, NoTable, 0, FALSE, <<>>)

\* The terms of an expression joined by its separator.
RECURSIVE Joined(_, _)
Joined(terms, sep) ==
    IF Len(terms) = 1 THEN Chars(terms[1])
    ELSE Chars(terms[1]) \o Chars(sep) \o Joined(Tail(terms), sep)

\* The right-hand side of an entry as written in the header.
RhsText(e) ==
    CASE e.k = "lit" -> Chars(e.args[1])
      [] e.k = "shift" -> Chars("(1 << (") \o Chars(e.args[1]) \o Chars("))")
      [] e.k = "nest" -> Chars("(1 << ((1 << (") \o Chars(e.args[1]) \o Chars("))))")
      [] e.k = "expr" -> Joined(e.args, e.sep)

\* An entry as a line of the enum, given its right-hand side.
EntryLine(e, rhs) == Chars("    ") \o Chars(e.name) \o Chars(" = ") \o rhs \o Chars(",\n")

EnumOpen == Chars("enum nk_flags {\n")
EnumClose == Chars("};\n")

\* The enum of the entries, with rhs[i] the right-hand side of the i-th.
EnumText(entries, rhs) ==
    IF entries = <<>> THEN <<>>
    ELSE EnumOpen
         \o Concat([i \in 1..Len(entries) |-> EntryLine(entries[i], rhs[i])])
         \o EnumClose

\* The right-hand sides of the entries as written in the header.
RhsTexts(entries) == [i \in 1..Len(entries) |-> RhsText(entries[i])]

TableOpen == Chars("struct nk_table {\n")
LeadMember(j) == Chars("    int f") \o <<DigitChar(j)>> \o Chars(";\n")
SizedMember == Chars("    nk_hash keys[sizeof(int)];\n")
TailMember(j) == Chars("    int *t") \o <<DigitChar(j)>> \o Chars(";\n")
TableClose == Chars("};\n")
OtherStruct == Chars("struct nk_other {\n    char pad[sizeof(int)];\n};\n")

LeadMembers(table) == Concat([j \in 1..table.lead |-> LeadMember(j)])
TailMembers(table) == Concat([j \in 1..table.tail |-> TailMember(j)])

\* struct nk_table as written in the header.
TableText(table) ==
    IF ~table.present THEN <<>>
    ELSE TableOpen \o LeadMembers(table)
         \o (IF table.sized THEN SizedMember ELSE <<>>)
         \o TailMembers(table) \o TableClose
         \o (IF table.other THEN OtherStruct ELSE <<>>)

PrototypeLine == DuplicateDecl \o <<"\n">>
PrototypesText(copies) == Concat([j \in 1..copies |-> PrototypeLine])

\* The same function with its parameter unnamed, and another function.
UnnamedDecl == Chars("extern void nk_draw_list_clear(struct nk_draw_list *);")
OtherDecl == Chars("extern void nk_draw_list_setup(struct nk_draw_list *list);")
ExtraLine(kind) == (IF kind = "unnamed" THEN UnnamedDecl ELSE OtherDecl) \o <<"\n">>
ExtraText(kinds) == Concat([j \in 1..Len(kinds) |-> ExtraLine(kinds[j])])

ErrorLine == Chars("#error unsupported\n")

\* The header file of a scenario.
HeaderText(sc) ==
    (IF sc.cpperror THEN ErrorLine ELSE <<>>)
    \o EnumText(sc.entries, RhsTexts(sc.entries)) \o ExtraText(sc.extra)
    \o TableText(sc.table) \o PrototypesText(sc.copies)

(***************************************************************************)
(* The program                                                             *)
(***************************************************************************)

VARIABLES
    pc,                       \* where the program is
    argv,                     \* sys.argv[1:]
    fs,                       \* the files: name -> contents
    stdout,                   \* the lines printed
    exit_code,                \* the exit status, -1 while running
    error,                    \* the exception that ended the run
    nuklear_header_filename,
    header,
    source,
    preprocessed_text,
    ffi,                      \* what the FFI builder was given and did
    scenario,                 \* the scenario of nuklear/nuklear.h
    previous,                 \* the invocations that ended before this one
    overview                  \* the Overview object of the demo

vars == <<pc, argv, fs, stdout, exit_code, error, nuklear_header_filename,
          header, source, preprocessed_text, ffi, scenario, previous, overview>>

\* No Overview object: the generator does not make one.
NoOverview ==
    [fields |-> <<>>, calls |-> 0, last |-> <<>>, frames |-> 0,
     begun |-> FALSE, menubar |-> FALSE]

NoError == [err |-> "", name |-> <<>>]

\* The state a run starts in, whatever the header.
Start ==
    /\ pc = "start"
    /\ argv = scenario.argv
    /\ fs = [n \in {DefaultHeader, "alt.h"} |->
                IF n = DefaultHeader THEN HeaderText(scenario) ELSE HeaderText(AltScenario)]
    /\ stdout = <<>>
    /\ exit_code = -1
    /\ error = NoError
    /\ nuklear_header_filename = DefaultHeader
    /\ header = <<>>
    /\ source = <<>>
    /\ preprocessed_text = <<>>
    /\ ffi = [invoked |-> FALSE, cdef |-> <<>>, source |-> <<>>, built |-> FALSE]
    /\ previous = <<>>
    /\ overview = NoOverview

Init == scenario \in Scenarios /\ Start

\* An uncaught exception: the traceback is printed and the exit status is 1.
Fail(e) ==
    /\ pc' = "failed"
    /\ exit_code' = 1
    /\ error' = [err |-> e.err, name |-> e.name]

\* The command-line loop (lines 107-120).
ParseArgs ==
    /\ pc = "start"
    /\ LET r == ParseArgv(argv, 1, nuklear_header_filename)
       IN  /\ stdout' = stdout \o r.out
           /\ nuklear_header_filename' = r.filename
           /\ IF r.exit = -1
              THEN pc' = "read" /\ exit_code' = exit_code
              ELSE pc' = "exited" /\ exit_code' = r.exit
    /\ UNCHANGED <<argv, fs, error, header, source, preprocessed_text, ffi, scenario>>
    /\ UNCHANGED <<previous, overview>>

\* A faulty start that puts the options in header only.
ReadHeader_bare_source ==
    /\ pc = "read"
    /\ IF nuklear_header_filename \in DOMAIN fs
       THEN /\ header' = opts \o fs[nuklear_header_filename]
            /\ source' = source_prefix \o fs[nuklear_header_filename]
            /\ pc' = "preprocess"
            /\ UNCHANGED <<exit_code, error>>
       ELSE /\ Fail([err |-> "IOError", name |-> Chars(nuklear_header_filename)])
            /\ UNCHANGED <<header, source>>
    /\ UNCHANGED <<argv, fs, stdout, nuklear_header_filename, preprocessed_text, ffi, scenario>>
    /\ UNCHANGED <<previous, overview>>

\* header, source and extra_cdef are made (lines 122-136).
ReadHeader ==
    /\ pc = "read"
    /\ IF nuklear_header_filename \in DOMAIN fs
       THEN /\ header' = opts \o fs[nuklear_header_filename]
            /\ source' = source_prefix \o (opts \o fs[nuklear_header_filename])
            /\ pc' = "preprocess"
            /\ UNCHANGED <<exit_code, error>>
       ELSE /\ Fail([err |-> "IOError", name |-> Chars(nuklear_header_filename)])
            /\ UNCHANGED <<header, source>>
    /\ UNCHANGED <<argv, fs, stdout, nuklear_header_filename, preprocessed_text, ffi, scenario>>
    /\ UNCHANGED <<previous, overview>>

\* A faulty stage that runs cpp without printing its line.
Preprocess_unannounced ==
    /\ pc = "preprocess"
    /\ fs' = WriteFile(fs, PreprocessorInput, header_only_options \o header)
    /\ LET r == cpp(header_only_options \o header)
       IN  IF r.ok
           THEN /\ preprocessed_text' = r.text
                /\ pc' = "shift"
                /\ UNCHANGED <<exit_code, error>>
           ELSE /\ Fail(r)
                /\ UNCHANGED preprocessed_text
    /\ UNCHANGED <<argv, stdout, nuklear_header_filename, header, source, ffi, scenario>>
    /\ UNCHANGED <<previous, overview>>

\* A faulty stage that prints its line and leaves the text as it is.
EvaluateShift_skipped ==
    /\ pc = "shift"
    /\ stdout' = Append(stdout, "Evaluating << expressions...")
    /\ pc' = "or"
    /\ UNCHANGED <<argv, fs, exit_code, error, nuklear_header_filename, header,
                   source, preprocessed_text, ffi, scenario>>
    /\ UNCHANGED <<previous, overview>>

\* "Preprocessing header..." (lines 51-52, run_c_preprocessor).
Preprocess ==
    /\ pc = "preprocess"
    /\ stdout' = Append(stdout, "Preprocessing header...")
    /\ fs' = WriteFile(fs, PreprocessorInput, header_only_options \o header)
    /\ LET r == cpp(header_only_options \o header)
       IN  IF r.ok
           THEN /\ preprocessed_text' = r.text
                /\ pc' = "shift"
                /\ UNCHANGED <<exit_code, error>>
           ELSE /\ Fail(r)
                /\ UNCHANGED preprocessed_text
    /\ UNCHANGED <<argv, nuklear_header_filename, header, source, ffi, scenario>>
    /\ UNCHANGED <<previous, overview>>

\* "Evaluating << expressions..." (lines 54-58).
EvaluateShift ==
    /\ pc = "shift"
    /\ stdout' = Append(stdout, "Evaluating << expressions...")
    /\ preprocessed_text' = SubShift(preprocessed_text, 1)
    /\ pc' = "or"
    /\ UNCHANGED <<argv, fs, exit_code, error, nuklear_header_filename, header,
                   source, ffi, scenario>>
    /\ UNCHANGED <<previous, overview>>

\* A faulty stage that prints its line when its work is done.
EvaluateOr_print_after ==
    /\ pc = "or"
    /\ LET r == SubOr(preprocessed_text, 1, <<>>)
       IN  IF r.ok
           THEN /\ preprocessed_text' = r.text
                /\ stdout' = Append(stdout, "Evaluating | expressions...")
                /\ pc' = "stub"
                /\ UNCHANGED <<exit_code, error>>
           ELSE /\ Fail(r)
                /\ UNCHANGED <<preprocessed_text, stdout>>
    /\ UNCHANGED <<argv, fs, nuklear_header_filename, header, source, ffi, scenario>>
    /\ UNCHANGED <<previous, overview>>

\* "Evaluating | expressions..." (lines 60-80).
EvaluateOr ==
    /\ pc = "or"
    /\ stdout' = Append(stdout, "Evaluating | expressions...")
    /\ LET r == SubOr(preprocessed_text, 1, <<>>)
       IN  IF r.ok
           THEN /\ preprocessed_text' = r.text
                /\ pc' = "stub"
                /\ UNCHANGED <<exit_code, error>>
           ELSE /\ Fail(r)
                /\ UNCHANGED preprocessed_text
    /\ UNCHANGED <<argv, fs, nuklear_header_filename, header, source, ffi, scenario>>
    /\ UNCHANGED <<previous, overview>>

\* "Stubbing nk_table..." (lines 82-89).
StubTable ==
    /\ pc = "stub"
    /\ stdout' = Append(stdout, "Stubbing nk_table...")
    /\ preprocessed_text' = SubStub(preprocessed_text, 1)
    /\ pc' = "dedup"
    /\ UNCHANGED <<argv, fs, exit_code, error, nuklear_header_filename, header,
                   source, ffi, scenario>>
    /\ UNCHANGED <<previous, overview>>

\* "Removing duplicate 'nk_draw_list_clear' declaration..." (lines 91-96).
RemoveDuplicate ==
    /\ pc = "dedup"
    /\ stdout' = Append(stdout, "Removing duplicate 'nk_draw_list_clear' declaration...")
    /\ preprocessed_text' = SubDuplicate(preprocessed_text, 1)
    /\ pc' = "write"
    /\ UNCHANGED <<argv, fs, exit_code, error, nuklear_header_filename, header,
                   source, ffi, scenario>>
    /\ UNCHANGED <<previous, overview>>

\* A faulty write that leaves out extra_cdef.
WriteDefs_header_only ==
    /\ pc = "write"
    /\ fs' = WriteFile(fs, nuklear_defs_filename, preprocessed_text)
    /\ pc' = "ffi"
    /\ UNCHANGED <<argv, stdout, exit_code, error, nuklear_header_filename, header,
                   source, preprocessed_text, ffi, scenario>>
    /\ UNCHANGED <<previous, overview>>

\* open(filename, 'w').write(preprocessed_text + extra_cdef) (line 98).
WriteDefs ==
    /\ pc = "write"
    /\ fs' = WriteFile(fs, nuklear_defs_filename, preprocessed_text \o extra_cdef_text)
    /\ pc' = "ffi"
    /\ UNCHANGED <<argv, stdout, exit_code, error, nuklear_header_filename, header,
                   source, preprocessed_text, ffi, scenario>>
    /\ UNCHANGED <<previous, overview>>

\* "Building ffi wrapper..." (lines 141-147).  Whether cffi accepts the
\* declarations and whether the C compiler accepts the source is theirs to
\* decide: each may fail.
BuildFFI ==
    /\ pc = "ffi"
    /\ stdout' = Append(stdout, "Building ffi wrapper...")
    /\ \E outcome \in {"built", "CDefError", "VerificationError"} :
        /\ ffi' = [invoked |-> TRUE,
                   cdef |-> fs[nuklear_defs_filename],
                   source |-> IF outcome = "CDefError" THEN <<>> ELSE source,
                   built |-> outcome = "built"]
        /\ IF outcome = "built"
           THEN pc' = "done" /\ exit_code' = 0 /\ UNCHANGED error
           ELSE Fail([err |-> outcome, name |-> <<>>])
    /\ UNCHANGED <<argv, fs, nuklear_header_filename, header, source,
                   preprocessed_text, scenario>>
    /\ UNCHANGED <<previous, overview>>

Next ==
    \/ ParseArgs
    \/ ReadHeader
    \/ Preprocess
    \/ EvaluateShift
    \/ EvaluateOr
    \/ StubTable
    \/ RemoveDuplicate
    \/ WriteDefs
    \/ BuildFFI

Spec == Init /\ [][Next]_vars

(***************************************************************************)
(* One invocation after another                                            *)
(***************************************************************************)

\* The most invocations after the first.
MaxReruns == 1

\* The program is started again, in the directory the ended invocation
\* leaves: the files stay, everything else starts afresh.
Rerun ==
    /\ pc \in {"done", "failed", "exited"}
    /\ Len(previous) < MaxReruns
    /\ previous' = Append(previous, [filename |-> nuklear_header_filename, pc |-> pc,
                                      stdout |-> stdout, fs |-> fs])
    /\ argv' \in {argv, <<>>, <<"--header", "alt.h">>, <<"--help">>}
    /\ pc' = "start"
    /\ stdout' = <<>>
    /\ exit_code' = -1
    /\ error' = NoError
    /\ nuklear_header_filename' = DefaultHeader
    /\ header' = <<>>
    /\ source' = <<>>
    /\ preprocessed_text' = <<>>
    /\ ffi' = [invoked |-> FALSE, cdef |-> <<>>, source |-> <<>>, built |-> FALSE]
    /\ UNCHANGED <<fs, scenario, overview>>

RerunInit == Init /\ scenario \in WholeFamily \cup ArgvFamily

RerunNext == Next \/ Rerun

RerunSpec == RerunInit /\ [][RerunNext]_vars

(***************************************************************************)
(* Headers whose identifiers end with the text of another                  *)
(***************************************************************************)

CollisionInit == scenario \in CollisionFamily /\ Start

CollisionSpec == CollisionInit /\ [][Next]_vars

(***************************************************************************)
(* The Overview object of the demo (demo/overview.py)                      *)
(*                                                                         *)
(* overview.fields are the attributes of the object, each a value v that   *)
(* is a plain Python value (ctype "") or the contents of a cffi object of  *)
(* type ctype; overview.calls counts the calls of callable initialisers;   *)
(* overview.last is the operation done last; overview.frames counts the    *)
(* calls of overview(), and overview.begun and overview.menubar tell       *)
(* whether the last of them got into the window (nk_begin returned true)   *)
(* and whether it built the menubar (called nk_menubar_begin).             *)
(***************************************************************************)

\* The most calls of callable initialisers, the largest value stored, and
\* the most calls of overview().
MaxCalls == 2
MaxValue == 2
MaxFrames == 2

FieldNames == {"show_menu", "prog", "declare"}
CTypes == {"", "int*"}
\* An initialiser: the value v, or a callable of no arguments returning v.
Initialisers == [callable : BOOLEAN, v : 0..1]

\* The object after __init__: of the names of the model it has the method
\* declare.
NewOverview ==
    [fields |-> [n \in {"declare"} |-> [ctype |-> "method", v |-> 0]],
     calls |-> 0,
     last |-> [op |-> "init", name |-> "", initialiser |-> [callable |-> FALSE, v |-> 0],
               ctype |-> ""],
     frames |-> 0, begun |-> FALSE, menubar |-> FALSE]

\* setattr(self, name, value).
SetAttr(fields, name, value) ==
    [n \in DOMAIN fields \cup {name} |-> IF n = name THEN value ELSE fields[n]]

\* A faulty declare without the hasattr test.
declare_always(name, initialiser, ctype) ==
    /\ pc = "demo"
    /\ initialiser.callable => overview.calls < MaxCalls
    /\ overview' =
          [fields |-> SetAttr(overview.fields, name, [ctype |-> ctype, v |-> initialiser.v]),
           calls |-> overview.calls + (IF initialiser.callable THEN 1 ELSE 0),
           last |-> [op |-> "declare", name |-> name, initialiser |-> initialiser,
                     ctype |-> ctype],
           frames |-> overview.frames, begun |-> overview.begun,
           menubar |-> overview.menubar]
    /\ UNCHANGED <<pc, argv, fs, stdout, exit_code, error, nuklear_header_filename,
                   header, source, preprocessed_text, ffi, scenario, previous>>

\* Overview.declare(name, initialiser, ctype) (lines 60-90).
declare(name, initialiser, ctype) ==
    /\ pc = "demo"
    /\ initialiser.callable /\ name \notin DOMAIN overview.fields =>
          overview.calls < MaxCalls
    /\ overview' =
          [fields |-> IF name \notin DOMAIN overview.fields
                      THEN SetAttr(overview.fields, name,
                                   [ctype |-> ctype, v |-> initialiser.v])
                      ELSE overview.fields,
           calls |-> IF name \notin DOMAIN overview.fields /\ initialiser.callable
                     THEN overview.calls + 1 ELSE overview.calls,
           last |-> [op |-> "declare", name |-> name, initialiser |-> initialiser,
                     ctype |-> ctype],
           frames |-> overview.frames, begun |-> overview.begun,
           menubar |-> overview.menubar]
    /\ UNCHANGED <<pc, argv, fs, stdout, exit_code, error, nuklear_header_filename,
                   header, source, preprocessed_text, ffi, scenario, previous>>

\* self.<name> = v, as in self.show_menu = False (line 230).
Assign(name, v) ==
    /\ pc = "demo"
    /\ overview' =
          [overview EXCEPT !.fields = SetAttr(overview.fields, name, [ctype |-> "", v |-> v]),
                           !.last = [op |-> "assign", name |-> name,
                                     initialiser |-> [callable |-> FALSE, v |-> v],
                                     ctype |-> ""]]
    /\ UNCHANGED <<pc, argv, fs, stdout, exit_code, error, nuklear_header_filename,
                   header, source, preprocessed_text, ffi, scenario, previous>>

\* A widget stores v in the cffi object the field holds (nk_checkbox_label
\* and the like are given self.<name>).
Store(name, v) ==
    /\ pc = "demo"
    /\ name \in DOMAIN overview.fields
    /\ overview.fields[name].ctype \notin {"", "method"}
    /\ overview' =
          [overview EXCEPT !.fields[name].v = v,
                           !.last = [op |-> "store", name |-> name,
                                     initialiser |-> [callable |-> FALSE, v |-> v],
                                     ctype |-> overview.fields[name].ctype]]
    /\ UNCHANGED <<pc, argv, fs, stdout, exit_code, error, nuklear_header_filename,
                   header, source, preprocessed_text, ffi, scenario, previous>>

\* The statics overview() declares when it begins (lines 147-163): name,
\* initialiser and ctype ("" without one).  The contents of window_flags
\* are the set of the enumerators ORed into it, {} for 0; the bits of an
\* enumerator are those nuklear.h gives it.
Statics ==
    <<[name |-> "show_menu", v |-> 1, ctype |-> "int*"],
      [name |-> "titlebar", v |-> 1, ctype |-> "int*"],
      [name |-> "border", v |-> 1, ctype |-> "int*"],
      [name |-> "resize", v |-> 1, ctype |-> "int*"],
      [name |-> "movable", v |-> 1, ctype |-> "int*"],
      [name |-> "no_scrollbar", v |-> 0, ctype |-> "int*"],
      [name |-> "scale_left", v |-> 0, ctype |-> "int*"],
      [name |-> "window_flags", v |-> {}, ctype |-> "int*"],
      [name |-> "minimizable", v |-> 1, ctype |-> "int*"],
      [name |-> "header_align", v |-> "NK_HEADER_RIGHT", ctype |-> ""],
      [name |-> "show_app_about", v |-> 0, ctype |-> ""]>>

\* The statics of the menubar (lines 198-200) and of its first menu (lines
\* 224-226).
MenubarStatics ==
    <<[name |-> "mprog", v |-> 60, ctype |-> "nk_size*"],
      [name |-> "mslider", v |-> 10, ctype |-> "int*"],
      [name |-> "mcheck", v |-> 0, ctype |-> "int*"]>>
MenuStatics ==
    <<[name |-> "prog", v |-> 40, ctype |-> "unsigned int*"],
      [name |-> "slider", v |-> 10, ctype |-> "int*"],
      [name |-> "check", v |-> 1, ctype |-> "int*"]>>

\* The attributes after self.declare(name, v, ctype) for each of ds, in
\* order: a name the object has keeps what it holds.
DeclaredAll(fields, ds) ==
    [n \in DOMAIN fields \cup {ds[k].name : k \in DOMAIN ds} |->
        IF n \in DOMAIN fields THEN fields[n]
        ELSE LET k == CHOOSE k \in DOMAIN ds : ds[k].name = n
             IN  [ctype |-> ds[k].ctype, v |-> ds[k].v]]

\* self.window_flags[0] after lines 175-182.
window_flags(fields) ==
    (IF fields["border"].v # 0 THEN {"NK_HEADER_RIGHT"} ELSE {})
    \cup (IF fields["resize"].v # 0 THEN {"NK_WINDOW_SCALABLE"} ELSE {})
    \cup (IF fields["movable"].v # 0 THEN {"NK_WINDOW_MOVABLE"} ELSE {})
    \cup (IF fields["no_scrollbar"].v # 0 THEN {"NK_WINDOW_NO_SCROLLBAR"} ELSE {})
    \cup (IF fields["scale_left"].v # 0 THEN {"NK_WINDOW_SCALE_LEFT"} ELSE {})
    \cup (IF fields["minimizable"].v # 0 THEN {"NK_WINDOW_MINIMIZABLE"} ELSE {})

\* The truth value of an attribute in an if: that of the value for a plain
\* Python value; true for a cffi object made by ffi.new, whose bool() tells
\* that the pointer is not NULL and not what it points to.
Truthy(field) == IF field.ctype = "" THEN field.v # 0 ELSE TRUE

\* The checkboxes of the "Window" tree in their order (lines 403-410).
WindowChecks ==
    <<"titlebar", "show_menu", "border", "resize", "movable", "no_scrollbar",
      "minimizable", "scale_left">>

\* What happens in a frame: whether nk_begin, the MENU menu, its Hide item
\* and the "Window" tree return true, and the checkbox of that tree that is
\* clicked ("" for none).  Nothing is open in a window that is not begun,
\* no item chosen in a menu that is not open, no checkbox clicked in a tree
\* that is not open.
FrameInputs ==
    {in \in [begin : BOOLEAN, menu : BOOLEAN, hide : BOOLEAN, tree : BOOLEAN,
             click : {""} \cup {WindowChecks[k] : k \in DOMAIN WindowChecks}] :
        /\ in.menu \/ in.tree => in.begin
        /\ in.hide => in.menu
        /\ in.click # "" => in.tree}

\* A plain value.
Plain(v) == [ctype |-> "", v |-> v]

\* Overview.overview(ctx) (lines 129-2353), as far as it bears on the
\* window flags and on show_menu: the declarations and the window flags
\* (lines 147-182), the menubar with its Hide item (lines 187-381) and the
\* checkboxes of the "Window" tree (lines 400-411).  A checkbox given a
\* plain Python value where it takes a pointer (self.show_menu at line 404,
\* once Hide has made it False) raises TypeError, which ends the demo.
overview_frame(in) ==
    /\ pc = "demo"
    /\ overview.frames < MaxFrames
    /\ LET f0 == DeclaredAll(overview.fields, Statics)
           f1 == [f0 EXCEPT !["window_flags"].v = window_flags(f0)]
           shown == in.begin /\ Truthy(f1["show_menu"])
           f2 == IF shown THEN DeclaredAll(f1, MenubarStatics) ELSE f1
           opened == shown /\ in.menu
           f3 == IF opened THEN DeclaredAll(f2, MenuStatics) ELSE f2
           f4 == IF opened /\ in.hide THEN SetAttr(f3, "show_menu", Plain(0)) ELSE f3
           checks == in.begin /\ in.tree
           badmenu == checks /\ f4["show_menu"].ctype = ""
           f5 == IF checks /\ in.click # "" /\ (badmenu => in.click = "titlebar")
                 THEN [f4 EXCEPT ![in.click].v = IF f4[in.click].v = 0 THEN 1 ELSE 0]
                 ELSE f4
       IN  /\ overview' =
                 [overview EXCEPT
                     !.fields = f5,
                     !.last = [op |-> "overview", name |-> "",
                               initialiser |-> [callable |-> FALSE, v |-> 0],
                               ctype |-> ""],
                     !.frames = overview.frames + 1,
                     !.begun = in.begin,
                     !.menubar = shown]
           /\ IF badmenu
              THEN Fail([err |-> "TypeError", name |-> <<>>])
              ELSE UNCHANGED <<pc, exit_code, error>>
    /\ UNCHANGED <<argv, fs, stdout, nuklear_header_filename, header, source,
                   preprocessed_text, ffi, scenario, previous>>

OverviewInit ==
    /\ pc = "demo"
    /\ overview = NewOverview
    /\ scenario = AltScenario
    /\ argv = <<>>
    /\ fs = [n \in {DefaultHeader} |-> HeaderText(AltScenario)]
    /\ stdout = <<>>
    /\ exit_code = -1
    /\ error = NoError
    /\ nuklear_header_filename = DefaultHeader
    /\ header = <<>>
    /\ source = <<>>
    /\ preprocessed_text = <<>>
    /\ ffi = [invoked |-> FALSE, cdef |-> <<>>, source |-> <<>>, built |-> FALSE]
    /\ previous = <<>>

OverviewNext ==
    \/ \E name \in FieldNames, initialiser \in Initialisers, ctype \in CTypes :
          declare(name, initialiser, ctype)
    \/ \E name \in FieldNames \ {"declare"}, v \in 0..MaxValue : Assign(name, v)
    \/ \E name \in FieldNames, v \in 0..MaxValue : Store(name, v)

OverviewSpec == OverviewInit /\ [][OverviewNext]_vars

\* The demo: the main loop calls overview.overview(nkpy.ctx) in every
\* frame (demo/demo.py, line 75).
FrameNext == \E in \in FrameInputs : overview_frame(in)

FrameSpec == OverviewInit /\ [][FrameNext]_vars

(***************************************************************************)
(* What the header means, read off the scenario and not off the text       *)
(***************************************************************************)

\* The scenario of the header the run reads.
Given == IF nuklear_header_filename = "alt.h" THEN AltScenario ELSE scenario

\* The last line printed.
LastLine == IF stdout = <<>> THEN "" ELSE stdout[Len(stdout)]
Printed(line) == \E i \in 1..Len(stdout) : stdout[i] = line

OrLine == "Evaluating | expressions..."
CppLine == "Preprocessing header..."

\* The names an enum entry can carry or refer to.
SymbolNames == {"NK_A", "NK_B", "NK_C", "NK_D", "NK_E", "NK_U"}

\* The entry that defines name, 0 when there is none.
IndexOf(entries, name) ==
    Leftmost({i \in 1..Len(entries) : entries[i].name = name})

\* The decimal numeral of 2^n for the shift counts of the model.
Pow2Text(n) ==
    CASE n = "0" -> "1" [] n = "1" -> "2" [] n = "2" -> "4" [] n = "8" -> "256"
      [] n = "31" -> "2147483648"

ShiftCount(n) == CASE n = "0" -> 0 [] n = "1" -> 1 [] n = "8" -> 8 [] n = "31" -> 31

\* The one bits of the integer literals of the model.
LiteralBits(text) ==
    CASE text = "1" -> {0} [] text = "2" -> {1} [] text = "4" -> {2}
      [] text = "0x10" -> {4}

\* The entries the i-th entry refers to, and those it reaches in n steps or
\* fewer.
Refs(entries, i) ==
    IF entries[i].k # "expr" THEN {}
    ELSE {IndexOf(entries, entries[i].args[j]) : j \in 1..Len(entries[i].args)} \ {0}

RECURSIVE Reached(_, _, _)
Reached(entries, S, n) ==
    IF n = 0 THEN S
    ELSE Reached(entries, S \cup UNION {Refs(entries, i) : i \in S}, n - 1)

\* No entry is defined in terms of itself.
Acyclic(entries) ==
    \A i \in 1..Len(entries) :
        i \notin Reached(entries, Refs(entries, i), Len(entries))

\* The value in C of a term of an enum expression, as the set of its one
\* bits; -1 is in the set when a symbol under it is defined nowhere.
RECURSIVE Meaning(_, _)
Meaning(entries, term) ==
    IF term \notin SymbolNames THEN LiteralBits(term)
    ELSE LET i == IndexOf(entries, term)
             e == entries[i]
         IN  IF i = 0 THEN {-1}
             ELSE CASE e.k = "lit" -> LiteralBits(e.args[1])
                    [] e.k = "shift" -> {ShiftCount(e.args[1])}
                    [] e.k = "expr" ->
                         UNION {Meaning(entries, e.args[j]) : j \in 1..Len(e.args)}

\* The symbols without a definition that resolving term runs into.
RECURSIVE Missing(_, _)
Missing(entries, term) ==
    IF term \notin SymbolNames THEN {}
    ELSE LET i == IndexOf(entries, term)
             e == entries[i]
         IN  IF i = 0 THEN {term}
             ELSE IF e.k = "expr"
             THEN UNION {Missing(entries, e.args[j]) : j \in 1..Len(e.args)}
             ELSE {}

\* Every expression under term is made of symbols only.
RECURSIVE SymbolsOnly(_, _)
SymbolsOnly(entries, term) ==
    /\ term \in SymbolNames
    /\ LET i == IndexOf(entries, term)
           e == entries[i]
       IN  i # 0 /\ e.k = "expr" =>
               \A j \in 1..Len(e.args) : SymbolsOnly(entries, e.args[j])

\* The entries whose right-hand side is an OR-chain: two or more symbols
\* joined by |.
Chains(entries) ==
    {i \in 1..Len(entries) :
        /\ entries[i].k = "expr"
        /\ Len(entries[i].args) >= 2
        /\ \A j \in 1..Len(entries[i].args) : entries[i].args[j] \in SymbolNames}

\* The chains whose symbols are all assigned integer literals.
LiteralChains(entries) ==
    {i \in Chains(entries) :
        \A j \in 1..Len(entries[i].args) :
            LET d == IndexOf(entries, entries[i].args[j])
            IN  d # 0 /\ entries[d].k = "lit"}

\* The chains with a symbol that is itself assigned a symbol or a chain of
\* symbols, every symbol under them being defined.
NestedChains(entries) ==
    {i \in Chains(entries) :
        /\ Acyclic(entries)
        /\ SymbolsOnly(entries, entries[i].name)
        /\ -1 \notin Meaning(entries, entries[i].name)
        /\ \E j \in 1..Len(entries[i].args) :
               LET d == IndexOf(entries, entries[i].args[j])
               IN  d # 0 /\ entries[d].k = "expr"}

\* The chains with, somewhere under them, an expression that ORs a symbol
\* with an integer literal, every symbol under them being defined.
MixedChains(entries) ==
    {i \in Chains(entries) :
        /\ Acyclic(entries)
        /\ ~SymbolsOnly(entries, entries[i].name)
        /\ -1 \notin Meaning(entries, entries[i].name)}

\* The undefined symbols the chains of the header run into.
MissingSymbols(entries) ==
    IF Acyclic(entries)
    THEN UNION {Missing(entries, entries[i].name) : i \in Chains(entries)}
    ELSE {}

\* The decimal numeral of a natural number below 2^31.
RECURSIVE DecimalText(_)
DecimalText(n) ==
    IF n < 10 THEN <<DigitChar(n)>>
    ELSE Append(DecimalText(n \div 10), DigitChar(n % 10))

RECURSIVE NumberOf(_)
NumberOf(bits) ==
    IF bits = {} THEN 0 ELSE 2 ^ Max(bits) + NumberOf(bits \ {Max(bits)})

\* The last six digits of n.
SixDigits(n) ==
    [i \in 1..6 |-> DigitChar((n \div (10 ^ (6 - i))) % 10)]

\* The decimal numeral of the integer with the one bits bits, all below 32:
\* 2^31 is 2147 * 10^6 + 483648.
NumeralOf(bits) ==
    IF 31 \notin bits THEN DecimalText(NumberOf(bits))
    ELSE LET low == NumberOf(bits \ {31})
             lo  == 483648 + (low % 1000000)
         IN  DecimalText(2147 + (low \div 1000000) + (lo \div 1000000))
             \o SixDigits(lo % 1000000)

\* What cpp puts before the first line of the header: the blanks that end
\* opts.
Indent == Chars("    ")

\* The right-hand sides of the entries once the shifts are folded.
ShiftFoldedRhs(entries) ==
    [i \in 1..Len(entries) |->
        CASE entries[i].k = "shift" -> Chars(Pow2Text(entries[i].args[1]))
          [] entries[i].k = "nest" ->
               Chars("(1 << (") \o Chars(Pow2Text(entries[i].args[1])) \o Chars("))")
          [] OTHER -> RhsText(entries[i])]

\* The text of the scenario once the shifts are folded.
ShiftFoldedText(sc) ==
    Indent \o EnumText(sc.entries, ShiftFoldedRhs(sc.entries)) \o ExtraText(sc.extra)
    \o TableText(sc.table) \o PrototypesText(sc.copies)

\* The line of the i-th entry in the text the program holds (the enum opens
\* the header), and the line "NAME = rhs," it is to be.
LineOfEntry(i) == LinesOf(preprocessed_text)[i + 1]
EntryAs(e, rhs) == Chars("    ") \o Chars(e.name) \o Chars(" = ") \o rhs \o <<",">>

\* How often the literal lit occurs in t.
Count(t, lit) == Cardinality({j \in 1..Len(t) : StartsAt(t, j, lit)})

(***************************************************************************)
(* The claims                                                              *)
(***************************************************************************)

\* C1: once the shifts are folded, every (1 << (N)) of the header stands
\* replaced by the decimal numeral of 2^N (1, 2, 256, 2147483648 for N = 0,
\* 1, 8, 31) and every other character of the text is as cpp printed it.
C1_ShiftFolded ==
    pc = "or" => preprocessed_text = ShiftFoldedText(Given)

C1_Witness ==
    /\ pc = "or"
    /\ \E i \in 1..Len(Given.entries) :
          Given.entries[i].k = "shift" /\ Given.entries[i].args[1] = "31"
    /\ Find(preprocessed_text, 1, Chars("= 2147483648,")) # 0

\* C2: once the chains are folded, the line of every chain whose symbols are
\* all assigned integer literals (decimal or hex) reads NAME = n, with n the
\* decimal numeral of the bitwise OR of those literals: the whole run of
\* symbols is gone.
C2_LiteralChainFolded ==
    pc = "stub" =>
        \A i \in LiteralChains(Given.entries) :
            LineOfEntry(i) =
                EntryAs(Given.entries[i],
                        DecimalText(NumberOf(Meaning(Given.entries, Given.entries[i].name))))

C2_Witness ==
    /\ pc = "stub"
    /\ \E i \in LiteralChains(Given.entries) :
          /\ Given.entries[i].args = <<"NK_A", "NK_B">>
          /\ LineOfEntry(i) = Chars("    NK_C = 18,")

\* C3: once the chains are folded, the line of every chain with a symbol
\* that is itself assigned a symbol or a chain of symbols reads NAME = n,
\* with n the numeral of the OR of all the integers underneath, however
\* deep the references go.
C3_NestedChainFolded ==
    pc = "stub" =>
        \A i \in NestedChains(Given.entries) :
            LineOfEntry(i) =
                EntryAs(Given.entries[i],
                        NumeralOf(Meaning(Given.entries, Given.entries[i].name)))

C3_Witness ==
    /\ pc = "stub"
    /\ \E i \in NestedChains(Given.entries) :
          /\ Given.entries[i].name = "NK_E"
          /\ IndexOf(Given.entries, "NK_D") \in NestedChains(Given.entries)
          /\ IndexOf(Given.entries, "NK_C") \in Chains(Given.entries)
          /\ LineOfEntry(i) = Chars("    NK_E = 258,")

\* C4: when the chains have been evaluated, a chain over a symbol whose
\* assigned value ORs a symbol with an integer literal (NK_D = NK_C | 4) is
\* folded to the OR of that symbol's value and the literal: with NK_A = 1,
\* NK_B = 2, NK_C = NK_A | NK_B, NK_D resolves to 7.
C4_MixedValueFolded ==
    Printed(OrLine) =>
        \A i \in MixedChains(Given.entries) :
            /\ pc # "failed"
            /\ pc = "stub" =>
                  LineOfEntry(i) =
                      EntryAs(Given.entries[i],
                              NumeralOf(Meaning(Given.entries, Given.entries[i].name)))

\* C5: when a chain runs into a symbol that is assigned nowhere, evaluating
\* the chains ends the run with the exception that names such a symbol; the
\* text keeps its chains and no declarations file is written.
C5_UnresolvableFails ==
    Printed(OrLine) /\ MissingSymbols(Given.entries) # {} =>
        /\ pc = "failed"
        /\ LastLine = OrLine
        /\ error.err = "Exception"
        /\ \E n \in MissingSymbols(Given.entries) : error.name = Chars(n)
        /\ preprocessed_text = ShiftFoldedText(Given)
        /\ nuklear_defs_filename \notin DOMAIN fs

C5_Witness ==
    /\ pc = "failed"
    /\ error.name = Chars("NK_C")
    /\ IndexOf(Given.entries, "NK_C") = 0
    /\ IndexOf(Given.entries, "NK_E") \in Chains(Given.entries)

\* C6: once struct nk_table is stubbed, a struct nk_table with one fixed
\* member before its sizeof member reads: its head, that member, the marker
\* "...;" and the closing "};"; the sizeof member and the members after it
\* are gone.
C6_TableStubbed ==
    pc = "dedup" /\ Given.table.present /\ Given.table.sized /\ Given.table.lead = 1 =>
        LET b == Find(preprocessed_text, 1, Chars("struct nk_table"))
        IN  /\ b # 0
            /\ From(preprocessed_text, b)
                  = Chars("struct nk_table {\n    int f1;\n    ...;\n};\n")
                    \o PrototypesText(Given.copies)

C6_Witness ==
    /\ pc = "dedup"
    /\ Given.table.present /\ Given.table.sized
    /\ Given.table.lead = 1 /\ Given.table.tail = 1
    /\ Find(preprocessed_text, 1, Chars("sizeof")) = 0

\* C7: once the duplicate is removed, a header with two identical
\* prototypes of nk_draw_list_clear holds exactly one of them.
C7_OneCopyKept ==
    pc = "write" /\ Given.copies = 2 => Count(preprocessed_text, DuplicateDecl) = 1

\* A header with a shift-based enum, an OR-chain, a struct nk_table that
\* can be stubbed and a duplicated prototype.
IsWhole(sc) ==
    /\ \E i \in 1..Len(sc.entries) : sc.entries[i].k = "shift"
    /\ Chains(sc.entries) # {}
    /\ sc.table.present /\ sc.table.sized /\ sc.table.lead >= 1
    /\ sc.copies >= 2

\* The text of struct nk_table in t, to its closing "};" (empty without).
TableIn(t) ==
    LET b == Find(t, 1, Chars("struct nk_table {"))
        e == Find(t, b, Chars("};"))
    IN  IF b = 0 \/ e = 0 THEN <<>> ELSE SubSeq(t, b, e + 1)

\* C8: the declarations file written for such a header holds no shift
\* expression, no run of symbols joined by |, no sizeof in struct nk_table,
\* and no prototype twice.
C8_NothingLeft ==
    nuklear_defs_filename \in DOMAIN fs /\ IsWhole(Given) =>
        LET defs  == fs[nuklear_defs_filename]
            lines == LinesOf(defs)
        IN  /\ Find(defs, 1, Chars("<<")) = 0
            /\ \A j \in 1..Len(defs) : or_expr(defs, j) = 0
            /\ Find(TableIn(defs), 1, Chars("sizeof")) = 0
            /\ TableIn(defs) # <<>>
            /\ \A i, j \in 1..Len(lines) :
                  i < j /\ lines[i] = lines[j] => ~StartsAt(lines[i], 1, Chars("extern"))

C8_Witness ==
    /\ pc = "done"
    /\ IsWhole(Given)
    /\ Given.table.lead = 2
    /\ ffi.cdef = fs[nuklear_defs_filename]

\* C9: a header cpp rejects ends the run at the preprocessing stage, and a
\* chain with an unresolvable symbol ends it at the OR stage; a run ended
\* there has a non-zero exit status, takes no further step, has written no
\* declarations file and has not invoked the FFI builder.
C9_AbortOnError ==
    /\ Given.cpperror /\ Printed(CppLine) => pc = "failed" /\ LastLine = CppLine
    /\ MissingSymbols(Given.entries) # {} /\ Printed(OrLine) =>
          pc = "failed" /\ LastLine = OrLine
    /\ pc = "failed" /\ LastLine \in {CppLine, OrLine} =>
          /\ exit_code # 0 /\ exit_code # -1
          /\ nuklear_defs_filename \notin DOMAIN fs
          /\ ~ffi.invoked
          /\ ~ENABLED Next

C9_Witness ==
    /\ pc = "failed"
    /\ error.err = "CalledProcessError"
    /\ Given.cpperror
    /\ PreprocessorInput \in DOMAIN fs

\* C10: the declarations file is the rewritten header text followed by the
\* supplementary callback declarations, and nothing else.
C10_DefsIsConcatenation ==
    nuklear_defs_filename \in DOMAIN fs =>
        LET defs == fs[nuklear_defs_filename]
            n    == Len(preprocessed_text)
        IN  /\ SubSeq(defs, 1, n) = preprocessed_text
            /\ From(defs, n + 1) =
                  Chars("\n    extern \"Python\" {\n        float pynk_text_width_callback(nk_handle handle, float height, const char *text, int len);\n    }\n    ")

C10_Witness ==
    /\ pc = "done"
    /\ nuklear_defs_filename \in DOMAIN fs
    /\ Find(fs[nuklear_defs_filename], 1, Chars("enum nk_flags")) # 0
    /\ Find(fs[nuklear_defs_filename], 1, Chars("pynk_text_width_callback")) # 0

\* The progress lines, in the order of the stages.
StageLines ==
    <<"Preprocessing header...", "Evaluating << expressions...",
      "Evaluating | expressions...", "Stubbing nk_table...",
      "Removing duplicate 'nk_draw_list_clear' declaration...",
      "Building ffi wrapper...">>

\* The places of a run in their order, and how many stages have printed
\* their line when the run is at each.
StagePlaces == <<"preprocess", "shift", "or", "stub", "dedup", "write", "ffi", "done">>
LinesAt == <<0, 1, 2, 3, 4, 5, 5, 6>>
PlaceOf(p) == Leftmost({i \in 1..Len(StagePlaces) : StagePlaces[i] = p})

\* The stage an exception comes from.
StageOfError(e) ==
    CASE e = "IOError" -> 0
      [] e = "CalledProcessError" -> 1
      [] e \in {"Exception", "ValueError", "RuntimeError"} -> 3
      [] e \in {"CDefError", "VerificationError"} -> 6

\* At every place the lines printed are the lines of the stages begun so
\* far, the declarations file is there exactly from the write step on, and
\* a stage that failed has printed its line.
LinesInOrder ==
    /\ PlaceOf(pc) # 0 =>
          /\ stdout = SubSeq(StageLines, 1, LinesAt[PlaceOf(pc)])
          /\ (nuklear_defs_filename \in DOMAIN fs) = (pc \in {"ffi", "done"})
          /\ (PreprocessorInput \in DOMAIN fs) = (pc # "preprocess")
    /\ pc = "failed" => stdout = SubSeq(StageLines, 1, StageOfError(error.err))

\* A step goes to the next place or fails, and an ended run stays ended.
NextPlace ==
    /\ PlaceOf(pc) # 0 =>
          pc' \in {StagePlaces[Min({PlaceOf(pc) + 1, Len(StagePlaces)})], "failed"}
    /\ pc \in {"done", "failed", "exited"} => pc' = pc

\* C11: a run goes through its stages one after the other in the fixed
\* order, none twice and none skipped; the lines printed are those of the
\* stages begun so far, in order, so a successful run has printed all six,
\* each before the work of its stage.
C11_StageOrder == []LinesInOrder /\ [][NextPlace]_vars

C11_Witness ==
    /\ pc = "done"
    /\ stdout = StageLines
    /\ ffi.built
    /\ Given.table.present /\ Given.copies = 2

\* The feature macros a text defines: its lines #define NK_INCLUDE_...
FeatureDefine == Chars("#define NK_INCLUDE_")
FeatureMacros(text) ==
    {SubSeq(text, j, SkipClass(text, j + 8, IdentChar) - 1) :
        j \in {j \in 1..Len(text) : text[j] = "#" /\ StartsAt(text, j, FeatureDefine)}}

\* The three the generator asks for.
WantedMacros ==
    {Chars("#define NK_INCLUDE_DEFAULT_ALLOCATOR"),
     Chars("#define NK_INCLUDE_VERTEX_BUFFER_OUTPUT"),
     Chars("#define NK_INCLUDE_FONT_BAKING")}

\* What text has before its ending contents ("?" when it does not end with
\* contents).
Ahead(text, contents) ==
    IF Len(contents) <= Len(text)
       /\ SubSeq(text, Len(text) - Len(contents) + 1, Len(text)) = contents
    THEN SubSeq(text, 1, Len(text) - Len(contents))
    ELSE <<"?">>

\* C12: the text the preprocessor was given and the source text kept for
\* (and given to) the FFI compiler both end with the contents of the header
\* file read, and ahead of them both define the same feature macros: the
\* three NK_INCLUDE_ macros.
C12_SameFeatureMacros ==
    PreprocessorInput \in DOMAIN fs =>
        LET contents == fs[nuklear_header_filename]
            given    == fs[PreprocessorInput]
            a        == Ahead(given, contents)
            b        == Ahead(source, contents)
        IN  /\ a # <<"?">> /\ b # <<"?">>
            /\ FeatureMacros(a) = WantedMacros
            /\ FeatureMacros(b) = FeatureMacros(a)
            /\ ffi.invoked /\ ffi.source # <<>> => ffi.source = source

C12_Witness ==
    /\ pc = "done"
    /\ ffi.source = source
    /\ FeatureMacros(ffi.source) = WantedMacros
    /\ FeatureMacros(fs[PreprocessorInput]) = WantedMacros
    /\ nuklear_header_filename = "alt.h"

\* C13: folding the shifts of a text whose shifts have been folded gives
\* the same text: no (1 << (N)) is left to match.
C13_ShiftIdempotent ==
    pc = "or" =>
        /\ SubShift(preprocessed_text, 1) = preprocessed_text
        /\ \A j \in 1..Len(preprocessed_text) : shift_expr(preprocessed_text, j) = 0

\* C14: when the header has no struct nk_table with a sizeof member, the
\* stubbing step changes nothing: the text still ends with the struct (if
\* any) and the prototypes as the header has them, and the run has not
\* failed.
C14_NoMatchNoOp ==
    Printed("Stubbing nk_table...") /\ ~(Given.table.present /\ Given.table.sized) =>
        LET rest == TableText(Given.table) \o PrototypesText(Given.copies)
            n    == Len(preprocessed_text)
        IN  /\ pc = "dedup" =>
                  /\ Len(rest) <= n
                  /\ SubSeq(preprocessed_text, n - Len(rest) + 1, n) = rest
            /\ LastLine = "Stubbing nk_table..." => pc # "failed"

\* The entries whose right-hand side is one symbol.
SingleSymbols(entries) ==
    {i \in 1..Len(entries) :
        /\ entries[i].k = "expr"
        /\ Len(entries[i].args) = 1
        /\ entries[i].args[1] \in SymbolNames}

\* C15: once the chains are folded, the line of every entry whose
\* right-hand side is a single symbol (NK_C = NK_A) reads as the header has
\* it, whether or not that symbol is defined.
C15_SingleSymbolKept ==
    pc = "stub" =>
        \A i \in SingleSymbols(Given.entries) :
            LineOfEntry(i) = EntryAs(Given.entries[i], Chars(Given.entries[i].args[1]))

C15_Witness ==
    /\ pc = "stub"
    /\ \E i \in SingleSymbols(Given.entries) :
          /\ Given.entries[i].name = "NK_D"
          /\ IndexOf(Given.entries, "NK_C") \in Chains(Given.entries)
          /\ LineOfEntry(i) = Chars("    NK_D = NK_C,")
          /\ LineOfEntry(IndexOf(Given.entries, "NK_C")) # Chars("    NK_C = NK_A | NK_B,")

\* The line reads "    NAME = <digits>,".
FoldedLine(line, name) ==
    LET head == Chars("    ") \o Chars(name) \o Chars(" = ")
    IN  /\ Len(line) > Len(head) + 1
        /\ SubSeq(line, 1, Len(head)) = head
        /\ AllIn(SubSeq(line, Len(head) + 1, Len(line) - 1), Digit)
        /\ line[Len(line)] = ","

\* C16: on a header whose definitions are acyclic, evaluating the chains
\* comes to an end within the depth of the definitions (the recursion of
\* lookup_value and evaluate_or never reaches the limit at which the model
\* cuts it): either the run goes on with every chain replaced by a decimal
\* numeral and no chain left, or it has ended with the exception of a
\* lookup.
C16_AcyclicTerminates ==
    Printed(OrLine) /\ Acyclic(Given.entries) =>
        /\ error.err # "RuntimeError"
        /\ pc = "failed" /\ LastLine = OrLine => error.err \in {"Exception", "ValueError"}
        /\ pc = "stub" =>
              /\ \A i \in Chains(Given.entries) :
                     FoldedLine(LineOfEntry(i), Given.entries[i].name)
              /\ \A j \in 1..Len(preprocessed_text) : or_expr(preprocessed_text, j) = 0

C16_Witness ==
    /\ pc = "stub"
    /\ Acyclic(Given.entries)
    /\ {IndexOf(Given.entries, n) : n \in {"NK_C", "NK_D", "NK_E"}} \subseteq Chains(Given.entries)
    /\ FoldedLine(LineOfEntry(IndexOf(Given.entries, "NK_E")), "NK_E")

\* The invocation before this one.
Earlier == previous[Len(previous)]

\* The same file with the same contents, or no such file, in both.
SameFile(f, g, name) ==
    /\ (name \in DOMAIN f) = (name \in DOMAIN g)
    /\ name \in DOMAIN f => f[name] = g[name]

\* This invocation has written the preprocessor input, the declarations.
WroteInput == Printed(CppLine)
WroteDefs == pc \in {"ffi", "done"} \/ Printed("Building ffi wrapper...")

\* C17 as stated: when an invocation that follows another has ended, the
\* preprocessor input and the declarations file hold what this invocation
\* made of its own input, and nothing of the earlier one.
C17_RewrittenByEveryRun ==
    previous # <<>> /\ pc \in {"done", "failed", "exited"} =>
        /\ PreprocessorInput \in DOMAIN fs =>
              fs[PreprocessorInput] = header_only_options \o header /\ header # <<>>
        /\ nuklear_defs_filename \in DOMAIN fs =>
              /\ fs[nuklear_defs_filename] = preprocessed_text \o extra_cdef_text
              /\ Printed("Removing duplicate 'nk_draw_list_clear' declaration...")

\* C17 as amended: an invocation that reaches the preprocessing stage has
\* replaced the preprocessor input by the options and the header it read,
\* and one that reaches the write has replaced the declarations file by its
\* rewritten text and the callback block; an invocation that has not got
\* there has left the file as the earlier one left it; and a successful
\* invocation that follows a successful one on the same header leaves both
\* files as they were.
C17_RewrittenWhenReached ==
    /\ WroteInput =>
          fs[PreprocessorInput]
              = header_only_options \o (opts \o fs[nuklear_header_filename])
    /\ WroteDefs => fs[nuklear_defs_filename] = preprocessed_text \o extra_cdef_text
    /\ previous # <<>> /\ ~WroteInput => SameFile(fs, Earlier.fs, PreprocessorInput)
    /\ previous # <<>> /\ ~WroteDefs => SameFile(fs, Earlier.fs, nuklear_defs_filename)
    /\ previous = <<>> /\ ~WroteDefs => nuklear_defs_filename \notin DOMAIN fs
    /\ /\ previous # <<>> /\ pc = "done"
       /\ Earlier.pc = "done" /\ Earlier.filename = nuklear_header_filename
       => fs = Earlier.fs

C17_Witness ==
    /\ previous # <<>>
    /\ pc = "done"
    /\ Earlier.pc = "done"
    /\ Earlier.filename # nuklear_header_filename
    /\ fs[nuklear_defs_filename] # Earlier.fs[nuklear_defs_filename]
    /\ fs[PreprocessorInput] # Earlier.fs[PreprocessorInput]

\* The header file a command line selects: the argument after the last
\* --header that has one, the bundled header without.
Selected(args) ==
    LET at == {i \in 1..(Len(args) - 1) : args[i] = "--header"}
    IN  IF at = {} THEN "nuklear/nuklear.h" ELSE args[Max(at) + 1]

\* C18: a run that goes on after its command line reads the header the
\* command line selects (nuklear/nuklear.h without --header), and the text
\* of that file, after the options, is what the preprocessor is given and
\* what the native source holds.
C18_HeaderSelected ==
    pc \notin {"start", "exited"} =>
        /\ nuklear_header_filename = Selected(argv)
        /\ header # <<>> =>
              /\ header = opts \o fs[Selected(argv)]
              /\ source = source_prefix \o (opts \o fs[Selected(argv)])
        /\ Printed(CppLine) =>
              fs[PreprocessorInput] = header_only_options \o (opts \o fs[Selected(argv)])
        /\ ffi.source # <<>> =>
              ffi.source = source_prefix \o (opts \o fs[Selected(argv)])
        /\ Selected(argv) \notin DOMAIN fs /\ pc # "read" =>
              pc = "failed" /\ error.err = "IOError"

C18_Witness ==
    /\ pc = "done"
    /\ argv = <<"--header", "alt.h">>
    /\ fs["alt.h"] # fs["nuklear/nuklear.h"]
    /\ ffi.source = source_prefix \o (opts \o fs["alt.h"])
    /\ fs[PreprocessorInput] = header_only_options \o (opts \o fs["alt.h"])

\* C19: a declare of a name the object has no attribute of sets it, from
\* the initialiser (called once if callable) and the ctype; a declare of a
\* name the object has leaves every attribute as it is, whatever the
\* initialiser and the ctype and whatever was stored since, and calls no
\* initialiser.
C19_DeclareOnce ==
    [][overview'.last.op = "declare" =>
          LET d == overview'.last
          IN  IF d.name \in DOMAIN overview.fields
              THEN /\ overview'.fields = overview.fields
                   /\ overview'.calls = overview.calls
              ELSE /\ overview'.fields =
                          SetAttr(overview.fields, d.name,
                                  [ctype |-> d.ctype, v |-> d.initialiser.v])
                   /\ overview'.calls =
                          overview.calls + (IF d.initialiser.callable THEN 1 ELSE 0)]_vars

\* A declare with a callable initialiser and a ctype was the last
\* operation, no initialiser has ever been called, and the field holds a
\* plain value that only an assignment can have put there.
C19_Witness ==
    /\ overview.last.op = "declare"
    /\ overview.last.name = "show_menu"
    /\ overview.last.initialiser.callable
    /\ overview.last.ctype = "int*"
    /\ overview.calls = 0
    /\ overview.fields["show_menu"] = [ctype |-> "", v |-> 2]

\* The marker and the closing of a stubbed struct, after its last kept
\* member.
OpaqueTail == Chars("    ...;\n};\n")

\* The text from struct nk_table on (empty without one).
FromTable ==
    LET b == Find(preprocessed_text, 1, Chars("struct nk_table {"))
    IN  IF b = 0 THEN <<>> ELSE From(preprocessed_text, b)

\* C20 as stated: once struct nk_table is stubbed, a struct nk_table with
\* a sizeof member holds its first member only, followed by the marker and
\* the closing, however many members precede the sizeof member.
C20_OnlyFirstMemberKept ==
    pc = "dedup" /\ Given.table.present /\ Given.table.sized /\ Given.table.lead >= 1 =>
        FromTable = TableOpen \o LeadMember(1) \o OpaqueTail
                    \o PrototypesText(Given.copies)

\* C20 as amended: once struct nk_table is stubbed, a struct nk_table with
\* one or more members before its sizeof member holds every one of them,
\* followed by the marker and the closing; the sizeof member and the
\* members after it are gone.
C20_LeadingMembersKept ==
    pc = "dedup" /\ Given.table.present /\ Given.table.sized /\ Given.table.lead >= 1 =>
        FromTable = TableOpen \o LeadMembers(Given.table) \o OpaqueTail
                    \o PrototypesText(Given.copies)

C20_Witness ==
    /\ pc = "dedup"
    /\ Given.table.present /\ Given.table.sized
    /\ Given.table.lead = 2 /\ Given.table.tail = 1
    /\ Find(preprocessed_text, 1, Chars("int f2;\n    ...;")) # 0
    /\ Find(preprocessed_text, 1, Chars("int *t1;")) = 0

\* The entries whose right-hand side is a run of two or more symbols ORed
\* with an integer literal at its end (NK_C = NK_A | NK_B | 4): the pass
\* replaces the run and leaves the literal.
PartlyFolded(entries) ==
    {i \in 1..Len(entries) :
        /\ entries[i].k = "expr"
        /\ Len(entries[i].args) >= 3
        /\ \A j \in 1..(Len(entries[i].args) - 1) : entries[i].args[j] \in SymbolNames
        /\ entries[i].args[Len(entries[i].args)] \notin SymbolNames}

\* The literal that ends such an entry, and its right-hand side once the
\* run is replaced (3 | 4).
EndLiteral(e) == Chars(e.args[Len(e.args)])
PartlyFoldedRhs(entries, i) ==
    NumeralOf(UNION {Meaning(entries, entries[i].args[j]) :
                        j \in 1..(Len(entries[i].args) - 1)})
    \o Chars(" | ") \o EndLiteral(entries[i])

\* The chain j has a term that names the entry i.
Names(entries, j, i) ==
    \E k \in 1..Len(entries[j].args) : entries[j].args[k] = entries[i].name

\* C21 as stated: when a chain names a symbol whose own run of symbols was
\* replaced earlier in the pass, the lookup finds the replaced text: with
\* NK_C = NK_A | NK_B | 4 replaced by 3 | 4, the chain NK_C | NK_A ends the
\* run with the ValueError of int("3 | 4").
C21_LookupSeesReplaced ==
    \A i \in PartlyFolded(Given.entries), j \in Chains(Given.entries) :
        Printed(OrLine) /\ i < j /\ Names(Given.entries, j, i) =>
            /\ pc = "failed"
            /\ error = [err |-> "ValueError", name |-> PartlyFoldedRhs(Given.entries, i)]

\* C21 as amended: a lookup made during the pass finds what the text held
\* when the pass began, whether the chain that names the symbol sits before
\* or after it: the lookup of NK_C finds NK_A | NK_B | 4 and goes on into
\* it, so the run ends with the exception for its term 4, and the text is
\* as the pass found it.
C21_LookupSeesOriginal ==
    \A i \in PartlyFolded(Given.entries), j \in Chains(Given.entries) :
        Printed(OrLine) /\ Names(Given.entries, j, i) =>
            /\ pc = "failed"
            /\ error = [err |-> "Exception", name |-> EndLiteral(Given.entries[i])]
            /\ preprocessed_text = ShiftFoldedText(Given)

C21_Witness ==
    /\ pc = "failed"
    /\ error.name = Chars("4")
    /\ \E i \in PartlyFolded(Given.entries), j \in Chains(Given.entries) :
          /\ i < j /\ Names(Given.entries, j, i)
          /\ PartlyFoldedRhs(Given.entries, i) = Chars("258 | 4")

\* The entries that assign name, and the one bits of the integer a literal
\* or shift entry assigns.
AssignmentsOf(entries, name) == {i \in 1..Len(entries) : entries[i].name = name}
AssignedBits(e) ==
    IF e.k = "shift" THEN {ShiftCount(e.args[1])} ELSE LiteralBits(e.args[1])

\* The chains over symbols assigned integers, one of them more than once.
ChainsOverDuplicates(entries) ==
    {i \in Chains(entries) :
        /\ \A j \in 1..Len(entries[i].args) :
              /\ AssignmentsOf(entries, entries[i].args[j]) # {}
              /\ \A d \in AssignmentsOf(entries, entries[i].args[j]) :
                     entries[d].k \in {"lit", "shift"}
        /\ \E j \in 1..Len(entries[i].args) :
              Cardinality(AssignmentsOf(entries, entries[i].args[j])) >= 2}

\* C22: once the chains are folded, a chain over a symbol that is assigned
\* more than once reads NAME = n with n the OR of, for each symbol, the
\* integer of the assignment that comes first in the text, whether the
\* chain stands before the first assignment, between the two or after both.
C22_FirstAssignmentWins ==
    pc = "stub" =>
        \A i \in ChainsOverDuplicates(Given.entries) :
            LineOfEntry(i) =
                EntryAs(Given.entries[i],
                        NumeralOf(UNION {AssignedBits(Given.entries[
                                            Min(AssignmentsOf(Given.entries,
                                                              Given.entries[i].args[j]))]) :
                                         j \in 1..Len(Given.entries[i].args)}))

\* The chain stands before both assignments of NK_A, 256 and 4, and reads
\* 256 | 2.
C22_Witness ==
    /\ pc = "stub"
    /\ 1 \in ChainsOverDuplicates(Given.entries)
    /\ AssignmentsOf(Given.entries, "NK_A") = {2, 4}
    /\ Given.entries[4].args = <<"4">>
    /\ LineOfEntry(1) = Chars("    NK_C = 258,")
    /\ LineOfEntry(4) = Chars("    NK_A = 4,")

\* The line a stage prints, by the place the run is at when the stage
\* begins ("" where no line is printed).
LineOfPlace(p) ==
    CASE p = "preprocess" -> "Preprocessing header..."
      [] p = "shift" -> "Evaluating << expressions..."
      [] p = "or" -> "Evaluating | expressions..."
      [] p = "stub" -> "Stubbing nk_table..."
      [] p = "dedup" -> "Removing duplicate 'nk_draw_list_clear' declaration..."
      [] p = "ffi" -> "Building ffi wrapper..."
      [] OTHER -> ""

\* The step in which a run fails is the step of a stage that has a line,
\* prints that line and nothing after it, and leaves the text as the stage
\* found it; only a header that cannot be read fails the run before the
\* first stage, with nothing printed.  A failed run prints no more.
FailsAtOwnLine ==
    /\ pc # "failed" /\ pc' = "failed" =>
          IF pc = "read" THEN stdout' = <<>> /\ error'.err = "IOError"
          ELSE /\ LineOfPlace(pc) # ""
               /\ stdout' = Append(stdout, LineOfPlace(pc))
               /\ preprocessed_text' = preprocessed_text
    /\ pc = "failed" => stdout' = stdout

\* The exceptions of each stage end the run under the line of that stage,
\* with the line of the next stage not printed.
FailedUnderLine ==
    pc = "failed" =>
        /\ error.err = "CalledProcessError" =>
              LastLine = "Preprocessing header..." /\ ~Printed("Evaluating << expressions...")
        /\ error.err \in {"Exception", "ValueError", "RuntimeError"} =>
              LastLine = "Evaluating | expressions..." /\ ~Printed("Stubbing nk_table...")
        /\ error.err \in {"CDefError", "VerificationError"} =>
              LastLine = "Building ffi wrapper..."

ShiftChains(entries) ==
    {i \in Chains(entries) :
        \A j \in 1..Len(entries[i].args) :
            LET d == IndexOf(entries, entries[i].args[j])
            IN  d # 0 /\ entries[d].k = "shift"}

\* What a lookup of name finds in text (the value is <<"?">> when nothing
\* is found).
Found(name, text) ==
    LET at == SearchAssign(Chars(name), text)
    IN  IF at = 0 THEN <<"?">> ELSE AssignGroup1(Chars(name), text, at)

\* C24: when the pass over the chains begins no (1 << (N)) of an enum entry
\* is left, so a lookup of a symbol assigned (1 << (N)) finds the numeral of
\* 2^N; with a chain of such symbols in the header no run ends with the
\* ValueError of a shift expression given to int(), and once the pass is
\* through the chain reads NAME = n with n the OR of their powers of two.
C24_ShiftsFoldedBeforeLookups ==
    /\ pc = "or" =>
          \A i \in 1..Len(Given.entries) :
              Given.entries[i].k = "shift" /\ IndexOf(Given.entries, Given.entries[i].name) = i =>
                  Found(Given.entries[i].name, preprocessed_text)
                      = Chars(Pow2Text(Given.entries[i].args[1]))
    /\ \A i \in ShiftChains(Given.entries) :
          /\ ~(error.err = "ValueError" /\ Find(error.name, 1, Chars("<<")) # 0)
          /\ pc = "stub" =>
                LineOfEntry(i) =
                    EntryAs(Given.entries[i],
                            NumeralOf({ShiftCount(Given.entries[IndexOf(Given.entries,
                                                      Given.entries[i].args[j])].args[1]) :
                                       j \in 1..Len(Given.entries[i].args)}))

C24_Witness ==
    /\ pc = "stub"
    /\ \E i \in ShiftChains(Given.entries) :
          /\ Given.entries[i].args = <<"NK_A", "NK_B">>
          /\ LineOfEntry(i) = Chars("    NK_C = 2147483650,")
    /\ Found("NK_A", preprocessed_text) = Chars("2147483648")

\* ---------------------------------------------------------------------
\* C25  Overview window flags: every call of overview() leaves in
\* window_flags exactly NK_WINDOW_BORDER if border was set when the flags
\* were computed, NK_WINDOW_SCALABLE if resize, NK_WINDOW_MOVABLE if movable,
\* NK_WINDOW_NO_SCROLLBAR if no_scrollbar, NK_WINDOW_SCALE_LEFT if scale_left
\* and NK_WINDOW_MINIMIZABLE if minimizable, and nothing else.
\* ---------------------------------------------------------------------
\* The flags the comments of lines 167-174 ask for.
WantedFlags(fields) ==
    {e \in {"NK_WINDOW_BORDER", "NK_WINDOW_SCALABLE", "NK_WINDOW_MOVABLE",
            "NK_WINDOW_NO_SCROLLBAR", "NK_WINDOW_SCALE_LEFT",
            "NK_WINDOW_MINIMIZABLE"} :
        \/ e = "NK_WINDOW_BORDER" /\ fields["border"].v # 0
        \/ e = "NK_WINDOW_SCALABLE" /\ fields["resize"].v # 0
        \/ e = "NK_WINDOW_MOVABLE" /\ fields["movable"].v # 0
        \/ e = "NK_WINDOW_NO_SCROLLBAR" /\ fields["no_scrollbar"].v # 0
        \/ e = "NK_WINDOW_SCALE_LEFT" /\ fields["scale_left"].v # 0
        \/ e = "NK_WINDOW_MINIMIZABLE" /\ fields["minimizable"].v # 0}

FlagsAsWanted ==
    overview'.frames = overview.frames + 1 =>
        overview'.fields["window_flags"].v =
            WantedFlags(DeclaredAll(overview.fields, Statics))

C25_WindowFlags == [][FlagsAsWanted]_vars

\* ---------------------------------------------------------------------
\* C26  Overview menubar gating: a frame whose window is begun builds the
\* menubar if and only if show_menu is non-zero when the frame reaches the
\* test, whether show_menu was cleared by the Hide item or by the Menu
\* checkbox.
\* ---------------------------------------------------------------------
MenubarAsShowMenu ==
    overview'.frames = overview.frames + 1 /\ overview'.begun =>
        (overview'.menubar <=>
            DeclaredAll(overview.fields, Statics)["show_menu"].v # 0)

C26_MenubarGated == [][MenubarAsShowMenu]_vars

\* ---------------------------------------------------------------------
\* C28  Stub keeps all leading members.
\* ---------------------------------------------------------------------
\* The step that stubs struct nk_table.
StubStep == pc = "stub" /\ pc' = "dedup"

\* The text with the struct nk_table of the header cut after its leading
\* members: the text before the struct, its opening, the members before
\* the sizeof member, the marker and the closing, and the text after the
\* struct.
StubbedAfterLead(t, table) ==
    LET b == Find(t, 1, TableOpen)
    IN  SubSeq(t, 1, b - 1) \o TableOpen \o LeadMembers(table) \o OpaqueTail
        \o From(t, b + Len(TableText(table)))

\* A header whose struct nk_table has a sizeof member and no struct after
\* it.
SizedTable == Given.table.present /\ Given.table.sized /\ ~Given.table.other

\* C28 as stated: the stubbing step turns the text into the text with
\* struct nk_table cut after the members that precede its sizeof member,
\* none when the sizeof member is the first.
C28_CutAtSizeofMember ==
    [][StubStep /\ SizedTable =>
          preprocessed_text' = StubbedAfterLead(preprocessed_text, Given.table)]_vars

\* C28 as amended: when one or more members precede the sizeof member the
\* stubbing step turns the text into the text with struct nk_table cut
\* after them, the sizeof member and everything up to the closing replaced
\* by the marker and the closing; when the sizeof member is the first
\* member and no sizeof( follows it, the step leaves the text as it is.
C28_CutAfterLeadingMember ==
    [][StubStep /\ SizedTable =>
          preprocessed_text' =
              IF Given.table.lead >= 1
              THEN StubbedAfterLead(preprocessed_text, Given.table)
              ELSE preprocessed_text]_vars

C28_Witness ==
    /\ pc = "dedup"
    /\ SizedTable
    /\ Given.table.lead = 1 /\ Given.table.tail = 1
    /\ Given.copies >= 1
    /\ Find(preprocessed_text, 1,
            Chars("struct nk_table {\n    int f1;\n    ...;\n};\nextern")) # 0
    /\ Find(preprocessed_text, 1, Chars("sizeof(")) = 0

\* ---------------------------------------------------------------------
\* C29  Duplicate removal frame: the duplicate-removal step takes out the
\* prototypes spelled exactly
\* `extern void nk_draw_list_clear(struct nk_draw_list *list);` and changes
\* no other character: the end of each such line stays, and so do a
\* prototype of the same function with an unnamed parameter and the
\* prototypes of another function declared twice.
\* ---------------------------------------------------------------------
\* The step that removes the prototypes.
DedupStep == pc = "dedup" /\ pc' = "write"

\* What is left of the prototype lines, which end the header: the ends of
\* the lines.
LineEnds(copies) == [j \in 1..copies |-> "\n"]

OnlyExactPrototypeRemoved ==
    DedupStep =>
        preprocessed_text' =
            SubSeq(preprocessed_text, 1,
                   Len(preprocessed_text) - Len(PrototypesText(Given.copies)))
            \o LineEnds(Given.copies)

C29_OnlyExactPrototypeRemoved == [][OnlyExactPrototypeRemoved]_vars

C29_Witness ==
    /\ pc = "write"
    /\ Given.extra = <<"unnamed", "other", "other">>
    /\ Given.copies = 2
    /\ Count(preprocessed_text, DuplicateDecl) = 0
    /\ Count(preprocessed_text, UnnamedDecl) = 1
    /\ Count(preprocessed_text, OtherDecl) = 2

\* ---------------------------------------------------------------------
\* C30  No cycle detection: on a header in which a chain refers to a
\* symbol whose definitions are cyclic, evaluating the chains never yields
\* a value and never raises the "Cannot find definition" exception: the
\* recursion of lookup_value and evaluate_or goes on to the limit of the
\* recursion depth, however deep that is, and the run ends there with the
\* text as it was.
\* ---------------------------------------------------------------------
C30_CyclicNeverResolves ==
    Printed(OrLine) /\ ~Acyclic(Given.entries) =>
        /\ pc = "failed"
        /\ LastLine = OrLine
        /\ error.err = "RuntimeError"
        /\ preprocessed_text = ShiftFoldedText(Given)

C30_Witness ==
    /\ pc = "failed"
    /\ error.err = "RuntimeError"
    /\ ~Acyclic(Given.entries)
    /\ Find(preprocessed_text, 1, Chars("NK_E = NK_C | NK_A")) # 0

\* ---------------------------------------------------------------------
\* C27  Exact-identifier lookup: a symbol takes its value from the entry
\* named exactly as the symbol, so once the chains are folded every chain
\* of symbols reads NAME = n with n the numeral of the OR of the values of
\* the entries its symbols name; an entry whose longer name ends with the
\* text of a symbol (NK_XNK_A for NK_A), or with the text of an integer
\* literal of a looked-up value (NK_X4 for 4), supplies nothing.
\* ---------------------------------------------------------------------
C27_ExactIdentifierLookup ==
    pc = "stub" =>
        \A i \in Chains(Given.entries) :
            LET e == Given.entries[i]
            IN  LineOfEntry(i) = EntryAs(e, NumeralOf(Meaning(Given.entries, e.name)))

====
